---- MODULE Spec2Model ----
(***************************************************************************)
(* Monitoring scheduler, availability collector and utilization aggregator *)
(* of the Playtomic availability monitor (app/services/scheduler.py,       *)
(* app/services/availability_service.py, app/services/playtomic_client.py).*)
(*                                                                         *)
(* Times are seconds (UTC) since 00:00:00 of day 0; a time of day is the   *)
(* number of seconds since local midnight; a date is a day number.         *)
(***************************************************************************)
EXTENDS Integers, Sequences, FiniteSets, TLC

\* None (Python) / NULL (SQL) for nullable columns and absent values.
NULL == -1

SecondsPerMinute == 60
SecondsPerDay == 86400

\* ------------------------------------------------------------------ bounds
\* Number of one-minute clock advances explored after the initial instant.
MaxClockSteps == 3
\* Number of snapshot rows the store may hold in the explored behaviours.
MaxSnapshots == 1
\* The same two bounds for the behaviours of the aggregator.
MaxAggClockSteps == 1
MaxAggSnapshots == 3

\* The behaviours of the scheduler start at 23:58:00 UTC of day 0, those of
\* the aggregator at 23:59:00.
StartClock == 23 * 3600 + 58 * 60
StartAggClock == 23 * 3600 + 59 * 60

\* ------------------------------------------------------------ fixed tables
\* Values of the request body / stored row that the behaviours range over.
DaysChoices == {1, 2}
Statuses == {"booked", "free", "closed"}

\* hh:mm:ss as seconds since local midnight
TimeOfDay(h, m) == h * 3600 + m * 60

\* <<start_time_local, end_time_local>> pairs of the configurations: no
\* window, a window crossing midnight, windows inside one day.
NoWindow == <<NULL, NULL>>
NightWindow == <<TimeOfDay(23, 59), TimeOfDay(0, 0)>>
DayWindow == <<TimeOfDay(0, 0), TimeOfDay(0, 1)>>
LateWindow == <<TimeOfDay(0, 59), TimeOfDay(1, 0)>>

VARIABLES
    now,            \* wall clock, seconds UTC
    asyncio_timedelta,  \* whether asyncio.timedelta resolves (playtomic_client.py:254)
    datetime_timedelta, \* whether datetime.timedelta resolves (availability_service.py:353)
    config,         \* monitoring_configs table: club id -> row
    courts,         \* courts table: sequence of rows, id = index
    snapshots,      \* availability_snapshots table: sequence of rows, id = index
    tick_pc,        \* "idle" | "loop": position of _check_and_monitor
    tick_queue,     \* configs of the running tick not yet processed (as scanned)
    tick_scan,      \* club ids returned by the running tick's scan
    tick_done,      \* <<club id, result>> of the configurations the tick has processed
    pending,        \* clubs whose last scheduler collect raised (history)
    last_tick,      \* time the last tick fired at (NULL: none yet)
    ev,             \* outcome of the last operation
    util,           \* result of the last utilization query
    loop_time,      \* asyncio event loop clock, seconds
    request_delay,  \* PlaytomicClient.request_delay, seconds
    last_request_time,  \* PlaytomicClient._last_request_time
    last_call_end,  \* loop time the latest network call ended at (NULL: none yet)
    calls,          \* the coroutines running _make_request: call id -> state
    collect,        \* the collect call in progress, with its database session
    clubs,          \* clubs table: sequence of rows, id = index
    scheduler,      \* MonitoringScheduler.scheduler: its state and its job store
    running,        \* MonitoringScheduler.running
    sessions,       \* concurrent collects inside _get_or_create_court: id -> state
    request,        \* the input of the last endpoint call or payload processing
    response        \* the slot list _process_and_store_availability returned

\* The state of the client and of the stepwise collect.
client_vars == <<loop_time, request_delay, last_request_time, last_call_end,
                 calls, collect>>

\* The clubs table, the scheduler object, and the state of the behaviours
\* that look inside one call of the collector.
admin_vars == <<clubs, scheduler, running, sessions, request, response>>

vars == <<now, asyncio_timedelta, datetime_timedelta, config, courts, snapshots, tick_pc,
          tick_queue, tick_scan, tick_done, pending, last_tick, ev, util,
          loop_time, request_delay, last_request_time, last_call_end, calls,
          collect, clubs, scheduler, running, sessions, request, response>>

\* A column that holds no string (SQL NULL of a String column).
NoString == ""

\* One row of the clubs table: Club.playtomic_id, Club.slug, Club.timezone
\* as the UTC offset pytz applies; deleted marks a row that was deleted (its
\* id is not handed out again).
ClubRow(playtomic_id, slug, timezone) ==
    [playtomic_id |-> playtomic_id, slug |-> slug, timezone |-> timezone,
     deleted |-> FALSE]

\* The ids of the rows of the clubs table (clubs.id).
Clubs == { i \in DOMAIN clubs : ~clubs[i].deleted }

\* pytz.timezone(club.timezone or "UTC") as the UTC offset
TzOffset(c) == clubs[c].timezone

\* date.today() of the server (server clock in UTC)
Today(t) == t \div SecondsPerDay

\* current_time_utc.replace(tzinfo=UTC).astimezone(club_tz).time()
LocalTimeOfDay(c, t) == (t + TzOffset(c)) % SecondsPerDay

\* ---------------------------------------------------- scheduler predicates
\* _is_within_monitoring_window without the midnight-crossing branch
is_within_monitoring_window_same_day(current_time, start_time, end_time) ==
    IF start_time = NULL \/ end_time = NULL
    THEN TRUE
    ELSE start_time <= current_time /\ current_time <= end_time

\* MonitoringScheduler._is_within_monitoring_window
is_within_monitoring_window(current_time, start_time, end_time) ==
    IF start_time = NULL \/ end_time = NULL
    THEN TRUE
    ELSE IF start_time <= end_time
         THEN start_time <= current_time /\ current_time <= end_time
         ELSE current_time >= start_time \/ current_time <= end_time

\* _should_run_now comparing the seconds, not the minutes, with the frequency
should_run_now_seconds(last_run_at, frequency_minutes, current_time) ==
    IF last_run_at = NULL
    THEN TRUE
    ELSE current_time - last_run_at >= frequency_minutes

\* _should_run_now with a strict comparison
should_run_now_strict(last_run_at, frequency_minutes, current_time) ==
    IF last_run_at = NULL
    THEN TRUE
    ELSE current_time - last_run_at > frequency_minutes * SecondsPerMinute

\* _should_run_now comparing the elapsed time with zero
should_run_now_any_elapsed(last_run_at, frequency_minutes, current_time) ==
    IF last_run_at = NULL
    THEN TRUE
    ELSE current_time - last_run_at >= 0

\* MonitoringScheduler._should_run_now; total_seconds() / 60 >= frequency
\* is compared without the division: seconds >= 60 * frequency.
should_run_now(last_run_at, frequency_minutes, current_time) ==
    IF last_run_at = NULL
    THEN TRUE
    ELSE LET time_since_last_run == current_time - last_run_at
         IN  time_since_last_run >= frequency_minutes * SecondsPerMinute

\* ------------------------------------------------------- external source
\* A time string of the raw payload, as str.split(":") and int() see it:
\* kind "none" is a missing value, colon says whether ":" occurs in it,
\* parts are the integer values of the pieces (NULL: not an integer).
TimeStr(colon, parts) == [kind |-> "text", colon |-> colon, parts |-> parts]

\* The value of a key the record does not have (None), or one that is not
\* a string.
NoTimeStr == [kind |-> "none", colon |-> FALSE, parts |-> <<>>]

\* datetime.time(hour, minute) accepts 0..23 and 0..59
ValidTime(hour, minute) ==
    hour >= 0 /\ hour <= 23 /\ minute >= 0 /\ minute <= 59

\* _parse_time dropping the minutes of "H:M"
parse_time_hours_only(time_str) ==
    IF time_str.kind = "none"
    THEN TimeOfDay(0, 0)
    ELSE IF ValidTime(time_str.parts[1], 0)
         THEN TimeOfDay(time_str.parts[1], 0)
         ELSE TimeOfDay(0, 0)

\* AvailabilityService._parse_time
parse_time(time_str) ==
    IF time_str.kind = "none"
    THEN TimeOfDay(0, 0)
    ELSE LET hour == time_str.parts[1]
             minute == IF time_str.colon /\ Len(time_str.parts) > 1
                       THEN time_str.parts[2]
                       ELSE 0
         IN  IF ValidTime(hour, minute) THEN TimeOfDay(hour, minute)
                                        ELSE TimeOfDay(0, 0)

\* One raw slot record of the payload with both of its times.
RawSlotTimes(start_time, end_time, available, closed) ==
    [start_time |-> start_time, end_time |-> end_time,
     available |-> available, closed |-> closed]

\* One raw slot record of the payload without an end_time.
RawSlot(start_time, available, closed) ==
    RawSlotTimes(start_time, NoTimeStr, available, closed)

\* the status derivation testing the available flag before the closed flag
slot_status_available_first(slot_data) ==
    IF slot_data.available THEN "free"
    ELSE IF slot_data.closed THEN "closed" ELSE "booked"

\* the status derivation without a value for slots that are not available
slot_status_unknown(slot_data) ==
    IF slot_data.closed THEN "closed"
    ELSE IF slot_data.available THEN "free" ELSE "unknown"

\* status derivation of _process_and_store_availability
slot_status(slot_data) ==
    IF slot_data.closed THEN "closed"
    ELSE IF slot_data.available THEN "free" ELSE "booked"

\* The external court id the payloads use (the same string for every club).
ExtCourt == "court_1"

\* One court entry of a day's payload.
CourtEntry(slots) == [court_id |-> ExtCourt, slots |-> slots]

\* Outcome of the single-day request of one date: ok = FALSE when the
\* request exhausted its retries, otherwise data = the "courts" list.
DayFailed == [ok |-> FALSE, courts |-> <<>>]
DayData(courts_data) == [ok |-> TRUE, courts |-> courts_data]

\* Flag combinations of a raw slot: booked, closed (closed wins), free.
RawFlags == { <<FALSE, FALSE>>, <<TRUE, TRUE>>, <<TRUE, FALSE>> }

\* Day outcomes of the scheduler-centred behaviours: failure, or a payload
\* with one slot.
SimpleDayOutcomes ==
    { DayFailed,
      DayData(<<CourtEntry(<<RawSlot(TimeStr(TRUE, <<8, 0>>), TRUE, FALSE)>>)>>) }

\* Day outcomes of the aggregation-centred behaviours: failure, one court
\* without slots, one slot at 08:00 that is booked or closed, or a booked
\* slot at 08:00 and a free slot at 9.
RichDayOutcomes ==
    { DayFailed, DayData(<<CourtEntry(<<>>)>>) }
    \cup { DayData(<<CourtEntry(<<RawSlot(TimeStr(TRUE, <<8, 0>>), f[1], f[2])>>)>>) :
             f \in RawFlags \ {<<TRUE, FALSE>>} }
    \cup { DayData(<<CourtEntry(<<RawSlot(TimeStr(TRUE, <<8, 0>>), FALSE, FALSE),
                                  RawSlot(TimeStr(FALSE, <<9>>), TRUE, FALSE)>>)>>) }

\* Outcomes of the requests of one collect: one per day of the range.
OutcomesFor(days, dayOutcomes) == [1..days -> dayOutcomes]

\* PlaytomicClient.get_availability_range.  The date of each day is computed
\* with asyncio.timedelta before the try block: when the name does not
\* resolve the AttributeError leaves the function at the first day.
get_availability_range(start_date, days, outcomes) ==
    IF days >= 1 /\ ~asyncio_timedelta
    THEN [raised |-> TRUE, results |-> <<>>]
    ELSE LET RECURSIVE Collect(_)
             Collect(day_offset) ==
                 IF day_offset >= days THEN <<>>
                 ELSE LET target_date == start_date + day_offset
                          o == outcomes[day_offset + 1]
                      IN  IF o.ok
                          THEN <<[date |-> target_date, data |-> o.courts]>>
                                   \o Collect(day_offset + 1)
                          ELSE Collect(day_offset + 1)
         IN  [raised |-> FALSE, results |-> Collect(0)]

\* ---------------------------------------------------------------- collector
\* the lookup of the court by its external id alone
get_or_create_court_any_club(crts, club, playtomic_court_id) ==
    LET found == { i \in 1..Len(crts) :
                     crts[i].playtomic_court_id = playtomic_court_id }
    IN  IF found = {}
        THEN [id |-> Len(crts) + 1,
              courts |-> Append(crts, [club_id |-> club,
                                       playtomic_court_id |-> playtomic_court_id])]
        ELSE [id |-> CHOOSE i \in found : TRUE, courts |-> crts]

\* AvailabilityService._get_or_create_court on the table crts: the id of the
\* court of (club, playtomic_court_id) and the table after the call.
get_or_create_court(crts, club, playtomic_court_id) ==
    LET found == { i \in 1..Len(crts) :
                     /\ crts[i].club_id = club
                     /\ crts[i].playtomic_court_id = playtomic_court_id }
    IN  IF found = {}
        THEN [id |-> Len(crts) + 1,
              courts |-> Append(crts, [club_id |-> club,
                                       playtomic_court_id |-> playtomic_court_id])]
        ELSE [id |-> CHOOSE i \in found : TRUE, courts |-> crts]

\* a row stamped with the clock at the time it is written
Snapshot_utcnow(club, court, snapshot_time, date, slot_data) ==
    [club_id |-> club, court_id |-> court, snapshot_time |-> now,
     date |-> date, start_time |-> parse_time(slot_data.start_time),
     end_time |-> parse_time(slot_data.end_time),
     status |-> slot_status(slot_data)]

\* The AvailabilitySnapshot row written for one raw slot.
Snapshot(club, court, snapshot_time, date, slot_data) ==
    [club_id |-> club, court_id |-> court, snapshot_time |-> snapshot_time,
     date |-> date, start_time |-> parse_time(slot_data.start_time),
     end_time |-> parse_time(slot_data.end_time),
     status |-> slot_status(slot_data)]

\* The AvailabilitySlot of the returned result for one raw slot.
AvailabilitySlot(court, date, slot_data) ==
    [court_id |-> court, date |-> date,
     start_time |-> parse_time(slot_data.start_time),
     end_time |-> parse_time(slot_data.end_time),
     status |-> slot_status(slot_data)]

RECURSIVE StoreSlots(_, _, _, _, _, _)
\* inner loop of _process_and_store_availability: one row per slot
StoreSlots(rows, club, court, snapshot_time, date, time_slots) ==
    IF time_slots = <<>> THEN rows
    ELSE StoreSlots(Append(rows, Snapshot(club, court, snapshot_time, date,
                                          Head(time_slots))),
                    club, court, snapshot_time, date, Tail(time_slots))

RECURSIVE process_and_store_availability(_, _, _, _, _)
\* AvailabilityService._process_and_store_availability on db = [courts, rows]
process_and_store_availability(db, club, target_date, courts_data, snapshot_time) ==
    IF courts_data = <<>> THEN db
    ELSE LET court_data == Head(courts_data)
             court == get_or_create_court(db.courts, club, court_data.court_id)
             rows == StoreSlots(db.rows, club, court.id, snapshot_time,
                                target_date, court_data.slots)
         IN  process_and_store_availability(
                 [courts |-> court.courts, rows |-> rows],
                 club, target_date, Tail(courts_data), snapshot_time)

RECURSIVE StoreDays(_, _, _, _)
\* loop of fetch_and_store_availability over the days that were returned
StoreDays(db, club, availability_data, snapshot_time) ==
    IF availability_data = <<>> THEN db
    ELSE LET date_data == Head(availability_data)
         IN  StoreDays(process_and_store_availability(
                           db, club, date_data.date, date_data.data, snapshot_time),
                       club, Tail(availability_data), snapshot_time)

\* AvailabilityService.fetch_and_store_availability(club, days) at time t
\* with the given request outcomes; commit_ok = FALSE when the commit of
\* line 71 raises.  The result names the tables after the call.
fetch_and_store_availability(club, days, outcomes, t, commit_ok) ==
    LET unchanged == [courts |-> courts, rows |-> snapshots]
    IN  IF club \notin Clubs
        THEN [raised |-> TRUE, error |-> "ValueError", db |-> unchanged]
        ELSE LET availability_data ==
                     get_availability_range(Today(t), days, outcomes)
             IN  IF availability_data.raised
                 THEN [raised |-> TRUE, error |-> "AttributeError", db |-> unchanged]
                 ELSE IF ~commit_ok
                 THEN [raised |-> TRUE, error |-> "DBError", db |-> unchanged]
                 ELSE [raised |-> FALSE, error |-> "",
                       db |-> StoreDays(unchanged, club,
                                        availability_data.results, t)]

\* --------------------------------------------------------------- aggregator
\* Indices of the club's rows of date d with the given court and start time.
KeyRows(rows, club, d, court, start) ==
    { i \in 1..Len(rows) :
        /\ rows[i].club_id = club /\ rows[i].date = d
        /\ rows[i].court_id = court /\ rows[i].start_time = start }

\* the subquery with min() in place of max()
latest_subquery_oldest(rows, club, d) ==
    { [court_id |-> rows[i].court_id, start_time |-> rows[i].start_time,
       max_snapshot_time |->
           LET times == { rows[j].snapshot_time :
                            j \in KeyRows(rows, club, d, rows[i].court_id,
                                          rows[i].start_time) }
           IN  CHOOSE m \in times : \A x \in times : x >= m] :
      i \in { k \in 1..Len(rows) : rows[k].club_id = club /\ rows[k].date = d } }

\* The grouped subquery of the utilization queries: one row per
\* (court_id, start_time) of the club's rows of date d, with
\* max(snapshot_time) of the group.
latest_subquery(rows, club, d) ==
    { [court_id |-> rows[i].court_id, start_time |-> rows[i].start_time,
       max_snapshot_time |->
           LET times == { rows[j].snapshot_time :
                            j \in KeyRows(rows, club, d, rows[i].court_id,
                                          rows[i].start_time) }
           IN  CHOOSE m \in times : \A x \in times : x <= m] :
      i \in { k \in 1..Len(rows) : rows[k].club_id = club /\ rows[k].date = d } }

\* The join of the utilization queries: the rows of the club that match a row
\* of the subquery on court_id, start_time and snapshot_time.
latest_snapshots(rows, club, d) ==
    { i \in 1..Len(rows) :
        /\ rows[i].club_id = club
        /\ \E g \in latest_subquery(rows, club, d) :
              /\ rows[i].court_id = g.court_id
              /\ rows[i].start_time = g.start_time
              /\ rows[i].snapshot_time = g.max_snapshot_time }

\* Number of the selected rows with the given status.
CountStatus(rows, selected, status) ==
    Cardinality({ i \in selected : rows[i].status = status })

\* The statistics both queries compute from the selected rows (the list
\* "snapshots" of the query, kept here as the set of row ids).
Stats(rows, selected, d) ==
    [date |-> d,
     snapshots |-> selected,
     total_slots |-> Cardinality(selected),
     booked_slots |-> CountStatus(rows, selected, "booked"),
     free_slots |-> CountStatus(rows, selected, "free"),
     closed_slots |-> CountStatus(rows, selected, "closed")]

\* The value raised in place of a result by a division by zero.
ZeroDivisionError == -2

\* round(count / total * 100, 2), kept as an integer number of hundredths
\* of a percent (round half to even); the division raises when total is 0.
percentage_of(count, total) ==
    IF total = 0 THEN ZeroDivisionError
    ELSE LET q == (count * 10000) \div total
             r == (count * 10000) % total
         IN  IF 2 * r < total THEN q
             ELSE IF 2 * r > total THEN q + 1
             ELSE IF q % 2 = 0 THEN q ELSE q + 1

\* the percentage of get_current_utilization without its guard
current_percentage_unguarded(count, total) == percentage_of(count, total)

\* (count / total * 100) if total > 0 else 0, rounded, of
\* get_current_utilization
current_percentage(count, total) ==
    IF total > 0 THEN percentage_of(count, total) ELSE 0

\* The response of get_current_utilization for the selected rows.
CurrentStats(rows, selected, d) ==
    LET s == Stats(rows, selected, d)
    IN  [date |-> s.date, snapshots |-> s.snapshots,
         total_slots |-> s.total_slots, booked_slots |-> s.booked_slots,
         free_slots |-> s.free_slots, closed_slots |-> s.closed_slots,
         booked_percentage |-> current_percentage(s.booked_slots, s.total_slots),
         free_percentage |-> current_percentage(s.free_slots, s.total_slots)]

\* One UtilizationDaily entry of get_daily_utilization (built only when
\* total_slots > 0, with the plain division).
DailyStats(rows, selected, d) ==
    LET s == Stats(rows, selected, d)
    IN  [date |-> s.date, snapshots |-> s.snapshots,
         total_slots |-> s.total_slots, booked_slots |-> s.booked_slots,
         free_slots |-> s.free_slots, closed_slots |-> s.closed_slots,
         booked_percentage |-> percentage_of(s.booked_slots, s.total_slots),
         free_percentage |-> percentage_of(s.free_slots, s.total_slots)]

\* AvailabilityService.get_current_utilization at time t
get_current_utilization(rows, club, t) ==
    IF club \notin Clubs
    THEN [raised |-> TRUE, entries |-> <<>>]
    ELSE LET entry == CurrentStats(rows, latest_snapshots(rows, club, Today(t)),
                                   Today(t))
         IN  IF ZeroDivisionError \in {entry.booked_percentage,
                                       entry.free_percentage}
             THEN [raised |-> TRUE, entries |-> <<>>]
             ELSE [raised |-> FALSE, entries |-> <<entry>>]

RECURSIVE DailyLoop(_, _, _, _)
\* the while loop of get_daily_utilization from current_date on, for the
\* case where datetime.timedelta resolves
DailyLoop(rows, club, current_date, to_date) ==
    IF current_date > to_date THEN <<>>
    ELSE LET selected == latest_snapshots(rows, club, current_date)
             entry == IF Cardinality(selected) > 0
                      THEN <<DailyStats(rows, selected, current_date)>>
                      ELSE <<>>
         IN  entry \o DailyLoop(rows, club, current_date + 1, to_date)

\* AvailabilityService.get_daily_utilization: the loop advances the date
\* with datetime.timedelta, where datetime is the class; when the name does
\* not resolve the first iteration ends in an AttributeError.
get_daily_utilization(rows, club, from_date, to_date) ==
    IF from_date <= to_date /\ ~datetime_timedelta
    THEN [raised |-> TRUE, entries |-> <<>>]
    ELSE [raised |-> FALSE, entries |-> DailyLoop(rows, club, from_date, to_date)]

\* ------------------------------------------------------------------ events
\* op: the operation; club: its club; result: how it ended; complete: every
\* day of the range was fetched; first_row: id of the first row it stored;
\* retry: the club's previous scheduler collect had raised.
Event(op, club, result, complete, first_row, retry) ==
    [op |-> op, club |-> club, result |-> result, complete |-> complete,
     first_row |-> first_row, retry |-> retry]

NoEvent == Event("none", 0, "", FALSE, 0, FALSE)

NoUtil == [op |-> "none", club |-> 0, raised |-> FALSE, entries |-> <<>>]

\* No request of the collect exhausted its retries.
AllDaysFetched(outcomes) == \A i \in DOMAIN outcomes : outcomes[i].ok

\* ------------------------------------------------------------------ client
\* settings.MAX_RETRIES and settings.REQUEST_DELAY_SECONDS (1.0)
MAX_RETRIES == 3
REQUEST_DELAY_SECONDS == 1

\* The event loop clock when the explored behaviours start (a monotonic
\* clock, far from the initial _last_request_time of 0.0).
StartLoopTime == 10

\* Number of one-second advances of the event loop clock that are explored.
MaxLoopSteps == 4

\* Configured values of request_delay the behaviours of the client range over.
DelayChoices == {REQUEST_DELAY_SECONDS, 2}

\* The coroutines that call _make_request.
CallIds == {1, 2}

\* The callers of _make_request.
Origins == {"search_clubs", "get_availability"}

\* What client.request / raise_for_status / response.json do in one attempt:
\* a 2xx response with a JSON body, a network error, timeout or non-2xx
\* status (httpx.HTTPError), or a 2xx response whose body is not JSON.
AttemptOutcomes == {"ok", "http_error", "invalid_json"}

\* State of one coroutine in _make_request.  pc: "idle" (not called),
\* "rate_limit" (sleeping in _rate_limit), "request" (network call
\* outstanding), "backoff" (sleeping between attempts), "done".
\* attempt: the loop variable; outcomes: the outcomes of the attempts made;
\* wake: the time a sleep ends; result: "", "ok", "HTTPError" or
\* "ValueError"; payload: the attempt whose body was returned (0: none).
Call(pc, origin, attempt, outcomes, wake, result, payload) ==
    [pc |-> pc, origin |-> origin, attempt |-> attempt, outcomes |-> outcomes,
     wake |-> wake, result |-> result, payload |-> payload]

NoCall == Call("idle", "", 0, <<>>, NULL, "", 0)

\* State of a collect call (fetch_and_store_availability) and of its
\* database session.  pc: "none", "range" (in get_availability_range),
\* "store" (processing the returned days), "commit", "done".
\* club: the club_id the call was made with;
\* today: date.today() of line 53; day_offset: the loop variable of the
\* range; requested: <<date, ok>> of the single-day requests made;
\* results: the list the range returns; snapshot_time: the timestamp of
\* line 59; session: the tables as the session sees them (committed rows
\* and its own pending rows); stored: number of results processed;
\* fault: "" or the step whose database operation raised; result: "",
\* "returned", "ValueError", "AttributeError" or "DBError"; slots: length
\* of the slot list built so far.
Collect(pc, club, days, today, day_offset, requested, results, snapshot_time, session, stored, fault, result, slots) ==
    [pc |-> pc, club |-> club, days |-> days, today |-> today,
     day_offset |-> day_offset, requested |-> requested, results |-> results,
     snapshot_time |-> snapshot_time, session |-> session, stored |-> stored,
     fault |-> fault, result |-> result, slots |-> slots]

\* The collect call in progress: none.
NoCollect ==
    Collect("none", 0, 0, 0, 0, <<>>, <<>>, NULL,
            [courts |-> <<>>, rows |-> <<>>], 0, "", "", 0)

\* The clubs the behaviours start from: club 1 was saved from a search
\* result without a slug and is in UTC, club 2 has a slug and is one hour
\* east of UTC.
InitClubs == <<ClubRow("a", NoString, 0), ClubRow("b", "b", 3600)>>

\* A job of the scheduler's job store: its id and the next time its
\* trigger fires.
Job(id, next_run_time) == [id |-> id, next_run_time |-> next_run_time]

\* AsyncIOScheduler() of __init__: not started, no job.
NewScheduler == [state |-> "stopped", jobs |-> <<>>]

\* The scheduler after the start of the application's lifespan, with the
\* first run of the job due.
StartedScheduler == [state |-> "running", jobs |-> <<Job("monitoring_job", 0)>>]

\* The collects that may run at the same time.
SessionIds == {1, 2}

\* A collect inside _get_or_create_court.  pc: "idle", "select" (about to
\* run the SELECT), "create" (the SELECT found no court), "commit" (court
\* resolved, rows added), "done"; club and court_id_playtomic: the
\* arguments; new_courts: the Court rows the session flushed and has not
\* committed; court: how the court was resolved ("", "found", "created");
\* result: "", "returned" or the exception.
Session(pc, club, court_id_playtomic, new_courts, court, result) ==
    [pc |-> pc, club |-> club, court_id_playtomic |-> court_id_playtomic,
     new_courts |-> new_courts, court |-> court, result |-> result]

NoSession == Session("idle", 0, "", <<>>, "", "")

\* No endpoint call or payload processing has been made.
NoRequest == [op |-> "none"]

\* The clubs table, the started scheduler, and nothing in progress.
InitAdmin ==
    /\ clubs = InitClubs
    /\ scheduler = StartedScheduler
    /\ running = TRUE
    /\ sessions = [s \in SessionIds |-> NoSession]
    /\ request = NoRequest
    /\ response = <<>>

\* The client and the stepwise collect at rest.
InitClient ==
    /\ loop_time = StartLoopTime
    /\ request_delay = REQUEST_DELAY_SECONDS
    /\ last_request_time = 0
    /\ last_call_end = NULL
    /\ calls = [k \in CallIds |-> NoCall]
    /\ collect = NoCollect

\* ------------------------------------------------------------------- Init
ConfigRow(club, enabled, frequency_minutes, window, days_ahead) ==
    [club_id |-> club, enabled |-> enabled,
     frequency_minutes |-> frequency_minutes,
     start_time_local |-> window[1], end_time_local |-> window[2],
     days_ahead |-> days_ahead, last_run_at |-> NULL]

\* Rows of club 1 the behaviours start from.
ConfigRows1 ==
    { ConfigRow(1, TRUE, 1, NoWindow, 2),
      ConfigRow(1, TRUE, 2, NoWindow, 1),
      ConfigRow(1, TRUE, 1, NightWindow, 1),
      ConfigRow(1, TRUE, 1, DayWindow, 1),
      ConfigRow(1, FALSE, 1, NoWindow, 1) }

\* Row of club 2 the behaviours start from.
ConfigRows2 == { ConfigRow(2, TRUE, 1, LateWindow, 1) }

InitCommon ==
    /\ InitClient
    /\ InitAdmin
    /\ asyncio_timedelta \in BOOLEAN
    /\ courts = <<>>
    /\ snapshots = <<>>
    /\ tick_pc = "idle"
    /\ tick_queue = <<>>
    /\ tick_scan = {}
    /\ tick_done = {}
    /\ pending = {}
    /\ last_tick = NULL
    /\ ev = NoEvent
    /\ util = NoUtil

Init ==
    /\ InitCommon
    /\ datetime_timedelta = FALSE
    /\ now = StartClock
    /\ \E c1 \in ConfigRows1, c2 \in ConfigRows2 :
          config = [c \in Clubs |-> IF c = 1 THEN c1 ELSE c2]

\* ----------------------------------------------------------------- actions
\* One minute passes.
AdvanceClock(last) ==
    /\ now + SecondsPerMinute <= last
    /\ now' = now + SecondsPerMinute
    /\ ev' = NoEvent
    /\ util' = NoUtil
    /\ UNCHANGED client_vars
    /\ UNCHANGED admin_vars
    /\ UNCHANGED <<asyncio_timedelta, datetime_timedelta, config, courts,
                   snapshots, tick_pc, tick_queue, tick_scan, tick_done,
                   pending, last_tick>>

\* Sequences that list every element of the set S once.
Orders(S) ==
    { q \in [1..Cardinality(S) -> S] : \A i, j \in DOMAIN q : q[i] = q[j] => i = j }

\* The scan of _check_and_monitor: the club ids of the rows with
\* enabled == True (every configuration row has a club).
enabled_configs(cfgs) == { c \in DOMAIN cfgs : cfgs[c].enabled }

\* _check_and_monitor up to the loop: the scan of the enabled configurations
\* (in the order the database returns them).  The interval trigger of a
\* job of the started scheduler fires once per minute, and not while the
\* previous run is still going.
TickStart ==
    /\ tick_pc = "idle"
    /\ last_tick # now
    /\ scheduler.state = "running"
    /\ \E j \in DOMAIN scheduler.jobs :
          /\ scheduler.jobs[j].next_run_time <= now
          /\ scheduler' = [scheduler EXCEPT
                              !.jobs[j].next_run_time = now + SecondsPerMinute]
    /\ \E order \in Orders(enabled_configs(config)) :
          /\ tick_queue' = [i \in DOMAIN order |-> config[order[i]]]
          /\ tick_scan' = { order[i] : i \in DOMAIN order }
    /\ tick_done' = {}
    /\ tick_pc' = "loop"
    /\ last_tick' = now
    /\ ev' = NoEvent
    /\ util' = NoUtil
    /\ UNCHANGED client_vars
    /\ UNCHANGED <<clubs, running, sessions, request, response>>
    /\ UNCHANGED <<now, asyncio_timedelta, datetime_timedelta, config, courts,
                   snapshots, pending>>

\* Faults of the database session while one configuration is processed:
\* the club lookup raises, the commit of the collect raises, the commit of
\* last_run_at raises (as it does without a fault when the row of the
\* configuration was deleted after the scan: the UPDATE matches no row).
Faults == {"none", "lookup", "collect_commit", "run_commit"}

\* the loop of _check_and_monitor without the try/except around one
\* configuration: an exception ends the loop
loop_after_abort(queue, raised) == IF raised THEN <<>> ELSE Tail(queue)

\* The for loop of _check_and_monitor after one configuration: an exception
\* of _process_monitoring_config is caught and logged inside the loop, so
\* the loop goes on with the configurations that are left either way.
loop_after(queue, raised) == Tail(queue)

\* the commit writing back every column of the row as the tick read it
set_last_run_at_whole_row(cfgs, c, current_time_utc) ==
    [cfgs EXCEPT ![c] = [Head(tick_queue) EXCEPT !.last_run_at = current_time_utc]]

\* The commit of last_run_at after a collect that returned: the row of the
\* club gets the time the configuration was evaluated at.
set_last_run_at(cfgs, c, current_time_utc) ==
    [cfgs EXCEPT ![c].last_run_at = current_time_utc]

\* the except branch writing last_run_at as the success branch does
rollback_config_advancing(cfgs, c, current_time_utc) ==
    [cfgs EXCEPT ![c].last_run_at = current_time_utc]

\* The except branch of _process_monitoring_config: the session is rolled
\* back and last_run_at keeps its value.
rollback_config(cfgs, c, current_time_utc) == cfgs

\* One iteration of the loop of _check_and_monitor: _process_monitoring_config
\* for the next scanned configuration, under the try/except of the loop.
\* dayOutcomesOf[c] and faultsOf[c]: what the upstream may answer and how
\* the database session may fail while the configuration of club c is
\* processed.
ProcessConfigFor(dayOutcomesOf, faultsOf) ==
    /\ tick_pc = "loop"
    /\ tick_queue # <<>>
    /\ LET cfg == Head(tick_queue)
           c == cfg.club_id
           Done(result, complete, first_row) ==
               /\ ev' = Event("process", c, result, complete, first_row,
                              c \in pending)
               /\ tick_done' = tick_done \cup {<<c, result>>}
       IN  \E fault \in faultsOf[c],
              outcomes \in OutcomesFor(cfg.days_ahead, dayOutcomesOf[c]) :
             IF fault = "lookup"
             THEN /\ Done("error", FALSE, 0)
                  /\ tick_queue' = loop_after(tick_queue, TRUE)
                  /\ UNCHANGED <<config, courts, snapshots, pending>>
             ELSE IF c \notin Clubs
             THEN /\ Done("club_not_found", FALSE, 0)
                  /\ tick_queue' = loop_after(tick_queue, FALSE)
                  /\ UNCHANGED <<config, courts, snapshots, pending>>
             ELSE /\ tick_queue' = loop_after(tick_queue, FALSE)
                  /\ IF ~is_within_monitoring_window(
                             LocalTimeOfDay(c, now), cfg.start_time_local,
                             cfg.end_time_local)
                     THEN /\ Done("outside_window", FALSE, 0)
                          /\ UNCHANGED <<config, courts, snapshots, pending>>
                     ELSE IF ~should_run_now(cfg.last_run_at,
                                             cfg.frequency_minutes, now)
                     THEN /\ Done("not_due", FALSE, 0)
                          /\ UNCHANGED <<config, courts, snapshots, pending>>
                     ELSE LET r == fetch_and_store_availability(
                                       c, cfg.days_ahead, outcomes, now,
                                       fault # "collect_commit")
                          IN  /\ Len(r.db.rows) <= MaxSnapshots
                              /\ courts' = r.db.courts
                              /\ snapshots' = r.db.rows
                              /\ IF r.raised
                                 THEN /\ Done("collect_failed", FALSE, 0)
                                      /\ config' = rollback_config(config, c, now)
                                      /\ pending' = pending \cup {c}
                                 ELSE IF fault = "run_commit" \/ c \notin DOMAIN config
                                 THEN /\ Done("commit_failed",
                                              AllDaysFetched(outcomes),
                                              Len(snapshots) + 1)
                                      /\ config' = rollback_config(config, c, now)
                                      /\ pending' = pending \ {c}
                                 ELSE /\ Done("collected",
                                              AllDaysFetched(outcomes),
                                              Len(snapshots) + 1)
                                      /\ config' = set_last_run_at(config, c, now)
                                      /\ pending' = pending \ {c}
    /\ util' = NoUtil
    /\ UNCHANGED client_vars
    /\ UNCHANGED admin_vars
    /\ UNCHANGED <<now, asyncio_timedelta, datetime_timedelta, tick_pc,
                   tick_scan, last_tick>>

\* The same iteration when every configuration meets the same upstream
\* outcomes and any of the faults.
ProcessConfig(dayOutcomes) ==
    ProcessConfigFor([c \in DOMAIN clubs |-> dayOutcomes],
                     [c \in DOMAIN clubs |-> Faults])

\* The loop of _check_and_monitor is over: the session is closed.
TickEnd ==
    /\ tick_pc = "loop"
    /\ tick_queue = <<>>
    /\ tick_pc' = "idle"
    /\ ev' = NoEvent
    /\ util' = NoUtil
    /\ UNCHANGED client_vars
    /\ UNCHANGED admin_vars
    /\ UNCHANGED <<now, asyncio_timedelta, datetime_timedelta, config, courts,
                   snapshots, tick_queue, tick_scan, tick_done, pending,
                   last_tick>>

\* the endpoint recording its collect as a run of the configuration
FetchAvailability_recording_run(club_ids, commits, dayOutcomes, maxRows) ==
    \E c \in club_ids, days \in DaysChoices, commit_ok \in commits :
      \E outcomes \in OutcomesFor(days, dayOutcomes) :
        LET r == fetch_and_store_availability(c, days, outcomes, now, commit_ok)
        IN  /\ Len(r.db.rows) <= maxRows
            /\ courts' = r.db.courts
            /\ snapshots' = r.db.rows
            /\ ev' = IF r.raised
                     THEN Event("fetch", c, "failed", FALSE, 0, FALSE)
                     ELSE Event("fetch", c, "collected", AllDaysFetched(outcomes),
                                Len(snapshots) + 1, FALSE)
            /\ config' = IF r.raised \/ c \notin DOMAIN config THEN config
                         ELSE [config EXCEPT ![c].last_run_at = now]
            /\ util' = NoUtil
            /\ UNCHANGED client_vars
            /\ UNCHANGED admin_vars
            /\ UNCHANGED <<now, asyncio_timedelta, datetime_timedelta,
                           tick_pc, tick_queue, tick_scan, tick_done, pending,
                           last_tick>>

\* POST /clubs/{club_id}/fetch-availability
FetchAvailability(club_ids, commits, dayOutcomes, maxRows) ==
    \E c \in club_ids, days \in DaysChoices, commit_ok \in commits :
      \E outcomes \in OutcomesFor(days, dayOutcomes) :
        LET r == fetch_and_store_availability(c, days, outcomes, now, commit_ok)
        IN  /\ Len(r.db.rows) <= maxRows
            /\ courts' = r.db.courts
            /\ snapshots' = r.db.rows
            /\ ev' = IF r.raised
                     THEN Event("fetch", c, "failed", FALSE, 0, FALSE)
                     ELSE Event("fetch", c, "collected", AllDaysFetched(outcomes),
                                Len(snapshots) + 1, FALSE)
            /\ util' = NoUtil
            /\ UNCHANGED client_vars
        /\ UNCHANGED admin_vars
            /\ UNCHANGED admin_vars
    /\ UNCHANGED admin_vars
            /\ UNCHANGED <<now, asyncio_timedelta, datetime_timedelta, config,
                           tick_pc, tick_queue, tick_scan, tick_done, pending,
                           last_tick>>

\* GET /clubs/{club_id}/utilization/current
GetCurrentUtilization(club_ids) ==
    \E c \in club_ids :
        LET r == get_current_utilization(snapshots, c, now)
        IN  /\ util' = [op |-> "current", club |-> c, raised |-> r.raised,
                        entries |-> r.entries]
            /\ ev' = NoEvent
            /\ UNCHANGED client_vars
        /\ UNCHANGED admin_vars
            /\ UNCHANGED admin_vars
    /\ UNCHANGED admin_vars
            /\ UNCHANGED <<now, asyncio_timedelta, datetime_timedelta, config,
                           courts, snapshots, tick_pc, tick_queue, tick_scan,
                           tick_done, pending, last_tick>>

\* Dates a daily query may name: the days the explored clock reaches.
QueryDates == Today(StartClock) .. Today(StartClock) + 1

\* GET /clubs/{club_id}/utilization/daily with from_date <= to_date
GetDailyUtilization(club_ids) ==
    \E c \in club_ids, from_date \in QueryDates, to_date \in QueryDates :
        /\ from_date <= to_date
        /\ LET r == get_daily_utilization(snapshots, c, from_date, to_date)
           IN  util' = [op |-> "daily", club |-> c, raised |-> r.raised,
                        entries |-> r.entries,
                        from_date |-> from_date, to_date |-> to_date]
        /\ ev' = NoEvent
        /\ UNCHANGED client_vars
        /\ UNCHANGED admin_vars
    /\ UNCHANGED admin_vars
        /\ UNCHANGED <<now, asyncio_timedelta, datetime_timedelta, config,
                       courts, snapshots, tick_pc, tick_queue, tick_scan,
                       tick_done, pending, last_tick>>

\* Behaviours of the scheduler.
Next ==
    \/ AdvanceClock(StartClock + MaxClockSteps * SecondsPerMinute)
    \/ TickStart
    \/ ProcessConfig(SimpleDayOutcomes)
    \/ TickEnd

Spec == Init /\ [][Next]_vars

\* ------------------------------------------------ pure-function behaviours
\* Everything but the clock and the configurations, for the behaviours
\* that evaluate one predicate of the scheduler on drawn arguments.
InitPure ==
    /\ InitClient
    /\ InitAdmin
    /\ asyncio_timedelta = FALSE
    /\ datetime_timedelta = FALSE
    /\ courts = <<>>
    /\ snapshots = <<>>
    /\ tick_pc = "idle"
    /\ tick_queue = <<>>
    /\ tick_scan = {}
    /\ tick_done = {}
    /\ pending = {}
    /\ last_tick = NULL
    /\ ev = NoEvent
    /\ util = NoUtil

\* The evaluation time of the due check: 00:00:00 of day 2.
DueNow == 2 * SecondsPerDay

\* now - last_run_at, in seconds, of the drawn arguments.
DueElapsed ==
    { 0 - 60, 0, 1, 59, 60, 61, 14 * 60, 14 * 60 + 59, 15 * 60, 15 * 60 + 1,
      16 * 60, 29 * 60 + 59, 30 * 60, SecondsPerDay, SecondsPerDay + 14 * 60 }

DueFrequencies == {1, 15, 30, 1440}

InitDue ==
    /\ InitPure
    /\ now = DueNow
    /\ \E f \in DueFrequencies, l \in {NULL} \cup { DueNow - e : e \in DueElapsed } :
          config = [c \in Clubs |->
                      [ConfigRow(c, TRUE, f, NoWindow, 1) EXCEPT !.last_run_at = l]]

\* _should_run_now(config of club 1, now)
EvalDue ==
    /\ ev.op = "none"
    /\ ev' = Event("due", 1,
                   IF should_run_now(config[1].last_run_at,
                                     config[1].frequency_minutes, now)
                   THEN "due" ELSE "not_due", FALSE, 0, FALSE)
    /\ UNCHANGED client_vars
    /\ UNCHANGED admin_vars
    /\ UNCHANGED <<now, asyncio_timedelta, datetime_timedelta, config, courts,
                   snapshots, tick_pc, tick_queue, tick_scan, tick_done,
                   pending, last_tick, util>>

SpecDue == InitDue /\ [][EvalDue]_vars

\* Times of day and window bounds of the drawn arguments.
WindowTimes ==
    { TimeOfDay(0, 0), TimeOfDay(1, 0), TimeOfDay(2, 0), TimeOfDay(2, 1),
      TimeOfDay(9, 0), TimeOfDay(12, 0), TimeOfDay(17, 0), TimeOfDay(21, 59),
      TimeOfDay(22, 0), TimeOfDay(23, 30), TimeOfDay(23, 59) }

WindowBounds ==
    { NULL, TimeOfDay(2, 0), TimeOfDay(9, 0), TimeOfDay(17, 0), TimeOfDay(22, 0) }

InitWindow ==
    /\ InitPure
    /\ now \in WindowTimes
    /\ \E s \in WindowBounds, e \in WindowBounds :
          config = [c \in Clubs |-> ConfigRow(c, TRUE, 1, <<s, e>>, 1)]

\* _is_within_monitoring_window(local time of club 1, window of club 1)
EvalWindow ==
    /\ ev.op = "none"
    /\ ev' = Event("window", 1,
                   IF is_within_monitoring_window(
                          LocalTimeOfDay(1, now), config[1].start_time_local,
                          config[1].end_time_local)
                   THEN "inside" ELSE "outside", FALSE, 0, FALSE)
    /\ UNCHANGED client_vars
    /\ UNCHANGED admin_vars
    /\ UNCHANGED <<now, asyncio_timedelta, datetime_timedelta, config, courts,
                   snapshots, tick_pc, tick_queue, tick_scan, tick_done,
                   pending, last_tick, util>>

SpecWindow == InitWindow /\ [][EvalWindow]_vars

\* Behaviours of the collector and the aggregator: manual fetches for club 1
\* with richer payloads, and utilization queries; monitoring is disabled.
InitAgg ==
    /\ InitCommon
    /\ datetime_timedelta \in BOOLEAN
    /\ now = StartAggClock
    /\ config = [c \in Clubs |-> ConfigRow(c, FALSE, 1, NoWindow, 1)]

NextAgg ==
    \/ AdvanceClock(StartAggClock + MaxAggClockSteps * SecondsPerMinute)
    \/ FetchAvailability({1}, {TRUE}, RichDayOutcomes, MaxAggSnapshots)
    \/ GetCurrentUtilization({1})
    \/ GetDailyUtilization({1})

SpecAgg == InitAgg /\ [][NextAgg]_vars

\* Day outcomes with a repeated key: one payload lists court_1 at "08:00"
\* (booked) and again at "8" (free), which _parse_time reads as the same
\* start time; the other outcomes are a failure and a single closed slot.
TieDayOutcomes ==
    { DayFailed,
      DayData(<<CourtEntry(<<RawSlot(TimeStr(TRUE, <<8, 0>>), TRUE, TRUE)>>)>>),
      DayData(<<CourtEntry(<<RawSlot(TimeStr(TRUE, <<8, 0>>), FALSE, FALSE),
                             RawSlot(TimeStr(FALSE, <<8>>), TRUE, FALSE)>>)>>) }

\* Behaviours of the collector and the aggregator with payloads that repeat
\* a key.
NextTie ==
    \/ AdvanceClock(StartAggClock + MaxAggClockSteps * SecondsPerMinute)
    \/ FetchAvailability({1}, {TRUE}, TieDayOutcomes, MaxAggSnapshots)
    \/ GetCurrentUtilization({1})
    \/ GetDailyUtilization({1})

SpecTie == InitAgg /\ [][NextTie]_vars

\* ------------------------------------------------- behaviours of the client
\* One second passes on the event loop clock.
AdvanceLoopTime ==
    /\ loop_time < StartLoopTime + MaxLoopSteps
    /\ loop_time' = loop_time + 1
    /\ UNCHANGED <<now, asyncio_timedelta, datetime_timedelta, config, courts,
                   snapshots, tick_pc, tick_queue, tick_scan, tick_done,
                   pending, last_tick, ev, util, request_delay,
                   last_request_time, last_call_end, calls, collect>>
    /\ UNCHANGED admin_vars

\* _rate_limit: the time to sleep before the request, 0 when none.
rate_limit_sleep(current_time, last, delay) ==
    LET time_since_last_request == current_time - last
    IN  IF time_since_last_request < delay
        THEN delay - time_since_last_request
        ELSE 0

\* the except branch raising at the first failed attempt
is_last_attempt_always(attempt, max_retries) == TRUE

\* if attempt == self.max_retries - 1: raise
is_last_attempt(attempt, max_retries) == attempt = max_retries - 1

\* a backoff whose exponent counts the attempts from 1
backoff_from_one(attempt) == 2 ^ (attempt + 1)

\* Exponential backoff: asyncio.sleep(2 ** attempt)
backoff(attempt) == 2 ^ attempt

\* What the other variables of the model do in a step of the client.
ClientFrame ==
    UNCHANGED <<now, asyncio_timedelta, datetime_timedelta, config, courts,
                snapshots, tick_pc, tick_queue, tick_scan, tick_done, pending,
                last_tick, ev, util, loop_time, request_delay, collect,
                clubs, scheduler, running, sessions, request, response>>

\* A caller enters _make_request: _rate_limit either goes to sleep or, with
\* no await in between, stamps _last_request_time and the first attempt's
\* network call starts.  get_availability is called from the loop of
\* get_availability_range only when the date arithmetic of that loop
\* resolves.
MakeRequest(k) ==
    /\ calls[k].pc = "idle"
    /\ \E origin \in Origins :
          /\ origin = "get_availability" => asyncio_timedelta
          /\ LET sleep == rate_limit_sleep(loop_time, last_request_time,
                                           request_delay)
             IN  IF sleep > 0
                 THEN /\ calls' = [calls EXCEPT ![k] =
                             Call("rate_limit", origin, 0, <<>>,
                                  loop_time + sleep, "", 0)]
                      /\ UNCHANGED last_request_time
                 ELSE /\ calls' = [calls EXCEPT ![k] =
                             Call("request", origin, 0, <<>>, NULL, "", 0)]
                      /\ last_request_time' = loop_time
    /\ UNCHANGED last_call_end
    /\ ClientFrame

\* The sleep of _rate_limit is over: _last_request_time is stamped and the
\* first attempt's network call starts.
RateLimitWake(k) ==
    /\ calls[k].pc = "rate_limit"
    /\ loop_time >= calls[k].wake
    /\ last_request_time' = loop_time
    /\ calls' = [calls EXCEPT ![k].pc = "request", ![k].wake = NULL]
    /\ UNCHANGED last_call_end
    /\ ClientFrame

\* The network call of the current attempt ends: the payload is returned,
\* or the HTTPError is caught (raised again after the last attempt, else the
\* coroutine sleeps for the backoff), or response.json() raises.
Response(k) ==
    /\ calls[k].pc = "request"
    /\ \E outcome \in AttemptOutcomes :
          LET c == calls[k]
              outcomes == Append(c.outcomes, outcome)
          IN  calls' = [calls EXCEPT ![k] =
                  CASE outcome = "ok" ->
                         Call("done", c.origin, c.attempt, outcomes, NULL, "ok",
                              c.attempt + 1)
                    [] outcome = "invalid_json" ->
                         Call("done", c.origin, c.attempt, outcomes, NULL,
                              "ValueError", 0)
                    [] outcome = "http_error" ->
                         IF is_last_attempt(c.attempt, MAX_RETRIES)
                         THEN Call("done", c.origin, c.attempt, outcomes, NULL,
                                   "HTTPError", 0)
                         ELSE Call("backoff", c.origin, c.attempt, outcomes,
                                   loop_time + backoff(c.attempt), "", 0)]
    /\ last_call_end' = loop_time
    /\ UNCHANGED last_request_time
    /\ ClientFrame

\* The backoff sleep is over: the next iteration of the loop starts its
\* network call.
BackoffWake(k) ==
    /\ calls[k].pc = "backoff"
    /\ loop_time >= calls[k].wake
    /\ calls' = [calls EXCEPT ![k].pc = "request", ![k].wake = NULL,
                              ![k].attempt = calls[k].attempt + 1]
    /\ UNCHANGED <<last_request_time, last_call_end>>
    /\ ClientFrame

InitClientCalls ==
    /\ InitAdmin
    /\ asyncio_timedelta \in BOOLEAN
    /\ datetime_timedelta = FALSE
    /\ now = StartClock
    /\ config = [c \in Clubs |-> ConfigRow(c, FALSE, 1, NoWindow, 1)]
    /\ courts = <<>>
    /\ snapshots = <<>>
    /\ tick_pc = "idle"
    /\ tick_queue = <<>>
    /\ tick_scan = {}
    /\ tick_done = {}
    /\ pending = {}
    /\ last_tick = NULL
    /\ ev = NoEvent
    /\ util = NoUtil
    /\ loop_time = StartLoopTime
    /\ request_delay \in DelayChoices
    /\ last_request_time = 0
    /\ last_call_end = NULL
    /\ calls = [k \in CallIds |-> NoCall]
    /\ collect = NoCollect

NextClient ==
    \/ AdvanceLoopTime
    \/ \E k \in CallIds : MakeRequest(k)
    \/ \E k \in CallIds : RateLimitWake(k)
    \/ \E k \in CallIds : Response(k)
    \/ \E k \in CallIds : BackoffWake(k)

SpecClient == InitClientCalls /\ [][NextClient]_vars

\* ---------------------------------------------- the collect, step by step
\* A club id with no row in the clubs table.
UnknownClub == 3

\* Club ids a collect is called with.
CollectClubs == {1, UnknownClub}

\* a lookup that falls back to the first club when the id has no row
lookup_club_first(club_id) == IF club_id \in Clubs THEN club_id ELSE 1

\* select(Club).where(Club.id == club_id) ... scalar_one_or_none()
lookup_club(club_id) == IF club_id \in Clubs THEN club_id ELSE NULL

\* a flush that commits: the flushed rows become visible at once
visible_after_flush_commit(tables, flushed) == flushed

\* db.add(court); await db.flush() of _get_or_create_court: the pending
\* rows go to the database inside the open transaction, and the tables the
\* other sessions see stay as they are.
visible_after_flush(tables, flushed) == tables

\* Number of snapshot rows the processing of the results writes.
RowsOf(results) ==
    Len(StoreDays([courts |-> <<>>, rows |-> <<>>], 1, results, 0).rows)

\* What the other variables of the model do in a step of the collect.
CollectFrame ==
    UNCHANGED <<now, asyncio_timedelta, datetime_timedelta, config, tick_pc,
                tick_queue, tick_scan, tick_done, pending, last_tick, ev, util,
                loop_time, request_delay, last_request_time, last_call_end,
                calls, clubs, scheduler, running, sessions, request, response>>

\* fetch_and_store_availability is called (by the scheduler or by the
\* fetch-availability endpoint): the club lookup, ValueError when there is
\* no such club, else date.today() and the call of get_availability_range.
BeginCollect ==
    /\ collect.pc = "none"
    /\ \E club_id \in CollectClubs, days \in DaysChoices :
          LET club == lookup_club(club_id)
              session == [courts |-> courts, rows |-> snapshots]
          IN  collect' =
                IF club = NULL
                THEN Collect("done", club_id, days, Today(now), 0, <<>>, <<>>,
                             NULL, session, 0, "", "ValueError", 0)
                ELSE Collect("range", club_id, days, Today(now), 0, <<>>, <<>>,
                             NULL, session, 0, "", "", 0)
    /\ UNCHANGED <<courts, snapshots>>
    /\ CollectFrame

\* One iteration of the loop of get_availability_range, or its end.  The
\* date of the iteration is computed with asyncio.timedelta outside the
\* try block: when the name does not resolve, the AttributeError leaves the
\* range and the collect.  Otherwise the single-day request is made and its
\* terminal failure is caught.  After the loop the collect takes
\* snapshot_time = datetime.utcnow().
RangeStep(dayOutcomes, maxRows) ==
    /\ collect.pc = "range"
    /\ IF collect.day_offset >= collect.days
       THEN collect' = [collect EXCEPT !.pc = "store", !.snapshot_time = now]
       ELSE IF ~asyncio_timedelta
       THEN collect' = [collect EXCEPT !.pc = "done", !.result = "AttributeError"]
       ELSE \E o \in dayOutcomes :
              LET target_date == collect.today + collect.day_offset
                  results == IF o.ok
                             THEN Append(collect.results,
                                         [date |-> target_date, data |-> o.courts])
                             ELSE collect.results
              IN  /\ Len(snapshots) + RowsOf(results) <= maxRows
                  /\ collect' = [collect EXCEPT
                        !.day_offset = collect.day_offset + 1,
                        !.requested = Append(collect.requested,
                                             <<target_date, o.ok>>),
                        !.results = results]
    /\ UNCHANGED <<courts, snapshots>>
    /\ CollectFrame

\* One iteration of the loop of fetch_and_store_availability over the
\* returned days: the rows of the day are added to the session; a new
\* court is flushed.  The database operation may raise (fault), which ends
\* the collect: the scheduler rolls the session back, the endpoint's
\* session is closed.
StoreStep ==
    /\ collect.pc = "store"
    /\ IF collect.stored >= Len(collect.results)
       THEN /\ collect' = [collect EXCEPT !.pc = "commit"]
            /\ UNCHANGED <<courts, snapshots>>
       ELSE \E raises \in BOOLEAN :
              LET date_data == collect.results[collect.stored + 1]
                  before == collect.session
                  after == process_and_store_availability(
                               before, lookup_club(collect.club), date_data.date,
                               date_data.data, collect.snapshot_time)
                  tables == [courts |-> courts, rows |-> snapshots]
                  visible ==
                      IF after.courts # before.courts
                      THEN visible_after_flush(
                               tables, [courts |-> after.courts,
                                        rows |-> before.rows])
                      ELSE tables
              IN  /\ courts' = visible.courts
                  /\ snapshots' = visible.rows
                  /\ collect' =
                       IF raises
                       THEN [collect EXCEPT !.pc = "done", !.session = after,
                                            !.fault = "store",
                                            !.result = "DBError"]
                       ELSE [collect EXCEPT
                               !.session = after,
                               !.stored = collect.stored + 1,
                               !.slots = Len(after.rows) - Len(snapshots)]
    /\ CollectFrame

\* await db.commit() of line 71 and the return of the response; the commit
\* may raise.
CommitStep ==
    /\ collect.pc = "commit"
    /\ \E commit_ok \in BOOLEAN :
          IF commit_ok
          THEN /\ courts' = collect.session.courts
               /\ snapshots' = collect.session.rows
               /\ collect' = [collect EXCEPT !.pc = "done", !.result = "returned"]
          ELSE /\ UNCHANGED <<courts, snapshots>>
               /\ collect' = [collect EXCEPT !.pc = "done", !.fault = "commit",
                                             !.result = "DBError"]
    /\ CollectFrame

\* The caller has the result or the exception; the session is gone.
EndCollect ==
    /\ collect.pc = "done"
    /\ collect' = NoCollect
    /\ UNCHANGED <<courts, snapshots>>
    /\ CollectFrame

InitCollect ==
    /\ InitCommon
    /\ datetime_timedelta = FALSE
    /\ now = StartAggClock
    /\ config = [c \in Clubs |-> ConfigRow(c, FALSE, 1, NoWindow, 1)]

NextCollect ==
    \/ AdvanceClock(StartAggClock + MaxAggClockSteps * SecondsPerMinute)
    \/ BeginCollect
    \/ RangeStep(RichDayOutcomes, MaxAggSnapshots)
    \/ StoreStep
    \/ CommitStep
    \/ EndCollect

SpecCollect == InitCollect /\ [][NextCollect]_vars

\* ------------------------------------------------ clubs and configurations
\* Number of rows the clubs table may hold in the explored behaviours,
\* deleted ones included.
MaxClubRows == 3

\* Values of playtomic_id and slug in the bodies of POST /clubs, and the
\* slugs the pattern of POST /clubs/from-url extracts from the URL
\* (NoString: the pattern does not match).
PlaytomicIds == {"a", "c"}
Slugs == {NoString, "c"}
UrlSlugs == {NoString, "a", "c"}

\* select(Club).where(Club.<col> == v): the ids of the rows with value v in
\* the column.
RowsWith(tbl, col, v) ==
    { i \in DOMAIN tbl : ~tbl[i].deleted /\ tbl[i][col] = v }

\* db.add(db_club); await db.commit(): the INSERT under the unique
\* constraints of playtomic_id and slug (NULL slugs do not collide).  The
\* IntegrityError is not caught: the request ends with status 500.
insert_club(tbl, row) ==
    IF \/ RowsWith(tbl, "playtomic_id", row.playtomic_id) # {}
       \/ row.slug # NoString /\ RowsWith(tbl, "slug", row.slug) # {}
    THEN [status |-> "500 IntegrityError", clubs |-> tbl]
    ELSE [status |-> "201", clubs |-> Append(tbl, row)]

\* POST /clubs
create_club(tbl, body) ==
    IF RowsWith(tbl, "playtomic_id", body.playtomic_id) # {}
    THEN [status |-> "400 already exists", clubs |-> tbl]
    ELSE insert_club(tbl, ClubRow(body.playtomic_id, body.slug, body.timezone))

\* POST /clubs/from-url with the slug the pattern extracts
create_club_from_url(tbl, slug) ==
    IF slug = NoString
    THEN [status |-> "400 invalid url", clubs |-> tbl]
    ELSE IF RowsWith(tbl, "slug", slug) # {}
    THEN [status |-> "400 already exists", clubs |-> tbl]
    ELSE insert_club(tbl, ClubRow(slug, slug, 3600))

\* A row of the courts table that was deleted (its id is not handed out
\* again).
DeletedCourt == [club_id |-> 0, playtomic_court_id |-> NoString]

\* a deletion of a club that empties the tables
survives_delete_club_none(row, club_id) == FALSE

\* The row of a table is left alone by the deletion of a club
\* (cascade="all, delete-orphan" of Club.courts and
\* Club.availability_snapshots): it belongs to another club.
survives_delete_club(row, club_id) == row.club_id # club_id

\* DELETE /clubs/{club_id}: the club, and by the cascade of the
\* relationships its courts, its monitoring configuration and its snapshots.
delete_club(tbl, cfgs, crts, rows, club_id) ==
    IF club_id \notin { i \in DOMAIN tbl : ~tbl[i].deleted }
    THEN [status |-> "404", clubs |-> tbl, config |-> cfgs, courts |-> crts,
          rows |-> rows]
    ELSE [status |-> "204",
          clubs |-> [tbl EXCEPT ![club_id].deleted = TRUE],
          config |-> [c \in DOMAIN cfgs \ {club_id} |-> cfgs[c]],
          courts |-> [i \in DOMAIN crts |->
                        IF survives_delete_club(crts[i], club_id)
                        THEN crts[i] ELSE DeletedCourt],
          rows |-> SelectSeq(rows, LAMBDA r : survives_delete_club(r, club_id))]

\* the lookup of the configuration finding nothing
find_config_missing(cfgs, club_id) == NULL

\* select(MonitoringConfig).where(MonitoringConfig.club_id == club_id)
\* ... scalar_one_or_none()
find_config(cfgs, club_id) == IF club_id \in DOMAIN cfgs THEN club_id ELSE NULL

\* db.add(db_config); await db.commit(): the INSERT under the unique
\* constraint of club_id.
insert_config(cfgs, row) ==
    IF row.club_id \in DOMAIN cfgs
    THEN [status |-> "500 IntegrityError", config |-> cfgs]
    ELSE [status |-> "201",
          config |-> [c \in DOMAIN cfgs \cup {row.club_id} |->
                        IF c = row.club_id THEN row ELSE cfgs[c]]]

\* The row of MonitoringConfig(**config_data) for a body that passed the
\* validation of MonitoringConfigCreate.
config_from_body(club_id, body) ==
    ConfigRow(club_id, body.enabled, body.frequency_minutes,
              <<body.start_time_local, body.end_time_local>>, body.days_ahead)

\* POST /clubs/{club_id}/monitoring
create_monitoring_config(tbl, cfgs, club_id, body) ==
    IF club_id \notin { i \in DOMAIN tbl : ~tbl[i].deleted }
    THEN [status |-> "404", config |-> cfgs]
    ELSE IF find_config(cfgs, club_id) # NULL
    THEN [status |-> "400 already exists", config |-> cfgs]
    ELSE insert_config(cfgs, config_from_body(club_id, body))

\* the PATCH storing a row built anew from the merged fields
update_monitoring_config_new_row(cfgs, club_id, update_data) ==
    IF find_config(cfgs, club_id) = NULL
    THEN [status |-> "404", config |-> cfgs]
    ELSE [status |-> "200",
          config |-> [cfgs EXCEPT ![club_id] =
                        [field \in DOMAIN cfgs[club_id] |->
                           IF field \in DOMAIN update_data
                           THEN update_data[field]
                           ELSE IF field = "last_run_at" THEN NULL
                           ELSE cfgs[club_id][field]]]]

\* PATCH /clubs/{club_id}/monitoring: update_data holds the fields the body
\* sets (model_dump(exclude_unset=True)); each is written with setattr.
update_monitoring_config(cfgs, club_id, update_data) ==
    IF find_config(cfgs, club_id) = NULL
    THEN [status |-> "404", config |-> cfgs]
    ELSE [status |-> "200",
          config |-> [cfgs EXCEPT ![club_id] =
                        [field \in DOMAIN cfgs[club_id] |->
                           IF field \in DOMAIN update_data
                           THEN update_data[field]
                           ELSE cfgs[club_id][field]]]]

\* DELETE /clubs/{club_id}/monitoring
delete_monitoring_config(cfgs, club_id) ==
    IF find_config(cfgs, club_id) = NULL
    THEN [status |-> "404", config |-> cfgs]
    ELSE [status |-> "204", config |-> [c \in DOMAIN cfgs \ {club_id} |-> cfgs[c]]]

\* Bodies of POST /clubs/{club_id}/monitoring that pass the validation of
\* the schema: no window, and only the start of a window.
ConfigBodies ==
    { [enabled |-> TRUE, frequency_minutes |-> 1, start_time_local |-> w[1],
       end_time_local |-> w[2], days_ahead |-> 1] :
        w \in {NoWindow, <<TimeOfDay(0, 0), NULL>>} }

\* Bodies of PATCH /clubs/{club_id}/monitoring that pass the validation of
\* the schema, as the fields they set: the end of the window, and both
\* bounds null.
UpdateBodies ==
    { [end_time_local |-> TimeOfDay(0, 1)],
      [start_time_local |-> NULL, end_time_local |-> NULL] }

\* Club ids the endpoints are called with: the rows of the table and one
\* id that has no row.
RequestClubs == 1..(Len(clubs) + 1)

\* What the endpoints of the clubs and of the configurations leave alone.
\* They are taken between the ticks of the scheduler.
AdminFrame ==
    /\ tick_pc = "idle"
    /\ util' = NoUtil
    /\ UNCHANGED client_vars
    /\ UNCHANGED <<now, asyncio_timedelta, datetime_timedelta, tick_pc,
                   tick_queue, tick_scan, tick_done, pending, last_tick,
                   scheduler, running, sessions, response>>

\* The event of an endpoint call.
AdminEvent(op, club_id, status) == Event(op, club_id, status, FALSE, 0, FALSE)

CreateClub ==
    /\ \E playtomic_id \in PlaytomicIds, slug \in Slugs :
          LET body == [op |-> "create_club", playtomic_id |-> playtomic_id,
                       slug |-> slug, timezone |-> 0]
              r == create_club(clubs, body)
          IN  /\ Len(r.clubs) <= MaxClubRows
              /\ clubs' = r.clubs
              /\ request' = body
              /\ ev' = AdminEvent("create_club", 0, r.status)
    /\ UNCHANGED <<config, courts, snapshots>>
    /\ AdminFrame

CreateClubFromUrl ==
    /\ \E slug \in UrlSlugs :
          LET r == create_club_from_url(clubs, slug)
          IN  /\ Len(r.clubs) <= MaxClubRows
              /\ clubs' = r.clubs
              /\ request' = [op |-> "create_club_from_url", slug |-> slug]
              /\ ev' = AdminEvent("create_club_from_url", 0, r.status)
    /\ UNCHANGED <<config, courts, snapshots>>
    /\ AdminFrame

DeleteClub(club_ids) ==
    /\ \E club_id \in club_ids :
          LET r == delete_club(clubs, config, courts, snapshots, club_id)
          IN  /\ clubs' = r.clubs
              /\ config' = r.config
              /\ courts' = r.courts
              /\ snapshots' = r.rows
              /\ request' = NoRequest
              /\ ev' = AdminEvent("delete_club", club_id, r.status)
    /\ AdminFrame

CreateConfig(club_ids, bodies) ==
    /\ \E club_id \in club_ids, body \in bodies :
          LET r == create_monitoring_config(clubs, config, club_id, body)
          IN  /\ config' = r.config
              /\ request' = NoRequest
              /\ ev' = AdminEvent("create_config", club_id, r.status)
    /\ UNCHANGED <<clubs, courts, snapshots>>
    /\ AdminFrame

UpdateConfig(club_ids, bodies) ==
    /\ \E club_id \in club_ids, update_data \in bodies :
          LET r == update_monitoring_config(config, club_id, update_data)
          IN  /\ config' = r.config
              /\ request' = NoRequest
              /\ ev' = AdminEvent("update_config", club_id, r.status)
    /\ UNCHANGED <<clubs, courts, snapshots>>
    /\ AdminFrame

DeleteConfig(club_ids) ==
    /\ \E club_id \in club_ids :
          LET r == delete_monitoring_config(config, club_id)
          IN  /\ config' = r.config
              /\ request' = NoRequest
              /\ ev' = AdminEvent("delete_config", club_id, r.status)
    /\ UNCHANGED <<clubs, courts, snapshots>>
    /\ AdminFrame

\* Behaviours of the endpoints of the clubs and of the configurations,
\* starting from the two clubs without configurations.
InitAdminCalls ==
    /\ InitPure
    /\ now = StartAggClock
    /\ config = [c \in {} |-> 0]

NextAdmin ==
    \/ CreateClub
    \/ CreateClubFromUrl
    \/ DeleteClub(RequestClubs)
    \/ CreateConfig(RequestClubs, ConfigBodies)
    \/ UpdateConfig(RequestClubs, UpdateBodies)
    \/ DeleteConfig(RequestClubs)

SpecAdmin == InitAdminCalls /\ [][NextAdmin]_vars

\* Number of snapshot rows the store may hold in the behaviours of the
\* store.
MaxStoreSnapshots == 2

\* The bodies of the configuration endpoints in the behaviours of the
\* store: an enabled configuration without a window, a change of days_ahead.
StoreConfigBodies ==
    { [enabled |-> TRUE, frequency_minutes |-> 1, start_time_local |-> NULL,
       end_time_local |-> NULL, days_ahead |-> 1] }
StoreUpdateBodies == { [days_ahead |-> 2] }

\* Behaviours of the snapshot store: manual collects, ticks of the
\* scheduler, current utilization queries, the deletion of clubs and the
\* endpoints of the configuration of club 1, starting from the two clubs
\* without configurations, at one instant of the clock (one tick is due).
InitStore ==
    /\ InitCommon
    /\ datetime_timedelta = FALSE
    /\ now = StartAggClock
    /\ config = [c \in {} |-> 0]

NextStore ==
    \/ FetchAvailability(DOMAIN clubs, {TRUE}, SimpleDayOutcomes, MaxStoreSnapshots)
    \/ GetCurrentUtilization(DOMAIN clubs)
    \/ TickStart
    \/ ProcessConfig(SimpleDayOutcomes)
    \/ TickEnd
    \/ DeleteClub(DOMAIN clubs)
    \/ CreateConfig({1}, StoreConfigBodies)
    \/ UpdateConfig({1}, StoreUpdateBodies)
    \/ DeleteConfig({1})

SpecStore == InitStore /\ [][NextStore]_vars

\* ------------------------------------------ concurrent court resolution
\* Bound: number of committed Court rows up to which a collect begins.
MaxRaceCourts == 2

\* External court ids a collect meets in a payload.
RaceCourtIds == {ExtCourt, "court_2"}

\* The Court row of _get_or_create_court.
CourtRow(club, playtomic_court_id) ==
    [club_id |-> club, playtomic_court_id |-> playtomic_court_id]

\* select(Court).where(club_id, playtomic_court_id) ... scalar_one_or_none()
\* on the rows crts a session sees: "none", "one", or "many" when
\* MultipleResultsFound is raised.
select_court(crts, club, playtomic_court_id) ==
    LET found == { i \in DOMAIN crts : crts[i] = CourtRow(club, playtomic_court_id) }
    IN  IF found = {} THEN "none"
        ELSE IF Cardinality(found) = 1 THEN "one" ELSE "many"

\* What the other variables do in a step of a concurrent collect.
RaceFrame ==
    UNCHANGED <<now, asyncio_timedelta, datetime_timedelta, config, snapshots,
                tick_pc, tick_queue, tick_scan, tick_done, pending, last_tick,
                ev, util, collect, clubs, scheduler, running, request, response>>
    /\ UNCHANGED client_vars

\* A collect of a club reaches _get_or_create_court with an external court
\* id of the payload (a new collect on a session that finished before).
BeginSession(s) ==
    /\ sessions[s].pc \in {"idle", "done"}
    /\ Len(courts) <= MaxRaceCourts
    /\ \E club \in Clubs, id \in RaceCourtIds :
          sessions' = [sessions EXCEPT ![s] = Session("select", club, id, <<>>, "", "")]
    /\ UNCHANGED courts
    /\ RaceFrame

\* The SELECT of lines 169-177 in the session's transaction (READ
\* COMMITTED: the committed rows and the rows the session flushed itself).
\* MultipleResultsFound leaves the collect, whose session is rolled back.
SelectCourt(s) ==
    /\ sessions[s].pc = "select"
    /\ LET me == sessions[s]
           r == select_court(courts \o me.new_courts, me.club, me.court_id_playtomic)
       IN  sessions' = [sessions EXCEPT ![s] =
               IF r = "many"
               THEN Session("done", me.club, me.court_id_playtomic, <<>>, "",
                            "MultipleResultsFound")
               ELSE IF r = "one"
               THEN Session("commit", me.club, me.court_id_playtomic,
                            me.new_courts, "found", "")
               ELSE Session("create", me.club, me.court_id_playtomic,
                            me.new_courts, "", "")]
    /\ UNCHANGED courts
    /\ RaceFrame

\* Lines 179-186: Court(...), db.add, await db.flush().  The table has no
\* unique constraint (court.py:27-29), so the INSERT succeeds whatever the
\* other sessions inserted.
CreateCourt(s) ==
    /\ sessions[s].pc = "create"
    /\ LET me == sessions[s]
       IN  sessions' = [sessions EXCEPT ![s] =
               Session("commit", me.club, me.court_id_playtomic,
                       Append(me.new_courts, CourtRow(me.club, me.court_id_playtomic)),
                       "created", "")]
    /\ UNCHANGED courts
    /\ RaceFrame

\* await db.commit() of fetch_and_store_availability (line 71): the rows
\* the session flushed become visible to the others.
CommitSession(s) ==
    /\ sessions[s].pc = "commit"
    /\ LET me == sessions[s]
       IN  /\ courts' = courts \o me.new_courts
           /\ sessions' = [sessions EXCEPT ![s] =
                  Session("done", me.club, me.court_id_playtomic, <<>>,
                          me.court, "returned")]
    /\ RaceFrame

\* Behaviours of collects that resolve courts at the same time, from the
\* empty courts table.
InitRace ==
    /\ InitPure
    /\ now = StartAggClock
    /\ config = [c \in {} |-> 0]

NextRace ==
    \E s \in SessionIds :
        \/ BeginSession(s)
        \/ SelectCourt(s)
        \/ CreateCourt(s)
        \/ CommitSession(s)

SpecRace == InitRace /\ [][NextRace]_vars

\* ------------------------------------------------- scheduler life cycle
\* AsyncIOScheduler.add_job(..., id, replace_existing): the job replaces the
\* stored job of its id, or ConflictingIdError without replace_existing.
add_job(sch, job, replace_existing) ==
    LET same == { j \in DOMAIN sch.jobs : sch.jobs[j].id = job.id }
    IN  IF same = {}
        THEN [scheduler |-> [sch EXCEPT !.jobs = Append(sch.jobs, job)],
              raised |-> FALSE]
        ELSE IF replace_existing
        THEN [scheduler |-> [sch EXCEPT !.jobs =
                                [j \in DOMAIN sch.jobs |->
                                    IF j \in same THEN job ELSE sch.jobs[j]]],
              raised |-> FALSE]
        ELSE [scheduler |-> sch, raised |-> TRUE]

\* start without the check of the running flag
scheduler_start_unguarded(sch, run, t) ==
    LET added == add_job(sch, Job("monitoring_job", t + SecondsPerMinute), TRUE)
    IN  IF sch.state = "running"
        THEN [scheduler |-> added.scheduler, running |-> run,
              result |-> "SchedulerAlreadyRunningError"]
        ELSE [scheduler |-> [added.scheduler EXCEPT !.state = "running"],
              running |-> TRUE, result |-> "started"]

\* MonitoringScheduler.start at time t: a warning and nothing else when the
\* flag is set; else the job is added (its first run one interval after t),
\* the scheduler started (SchedulerAlreadyRunningError if it runs already)
\* and the flag set.
scheduler_start(sch, run, t) ==
    IF run
    THEN [scheduler |-> sch, running |-> run, result |-> "warning"]
    ELSE LET added == add_job(sch, Job("monitoring_job", t + SecondsPerMinute), TRUE)
         IN  IF sch.state = "running"
             THEN [scheduler |-> added.scheduler, running |-> run,
                   result |-> "SchedulerAlreadyRunningError"]
             ELSE [scheduler |-> [added.scheduler EXCEPT !.state = "running"],
                   running |-> TRUE, result |-> "started"]

\* stop that shuts the scheduler down and leaves the flag set
scheduler_stop_flag_kept(sch, run, jobs_kept) ==
    IF ~run
    THEN [scheduler |-> sch, running |-> run, result |-> "not running"]
    ELSE [scheduler |-> [state |-> "stopped",
                         jobs |-> IF jobs_kept THEN sch.jobs ELSE <<>>],
          running |-> run, result |-> "stopped"]

\* MonitoringScheduler.stop: nothing when the flag is not set; else
\* scheduler.shutdown(wait=False) and the flag cleared.  jobs_kept: whether
\* the job store of the library keeps its jobs over the shutdown.
scheduler_stop(sch, run, jobs_kept) ==
    IF ~run
    THEN [scheduler |-> sch, running |-> run, result |-> "not running"]
    ELSE [scheduler |-> [state |-> "stopped",
                         jobs |-> IF jobs_kept THEN sch.jobs ELSE <<>>],
          running |-> FALSE, result |-> "stopped"]

\* What the other variables do in a call of start or stop.
LifeFrame ==
    /\ util' = NoUtil
    /\ UNCHANGED client_vars
    /\ UNCHANGED <<now, asyncio_timedelta, datetime_timedelta, config, courts,
                   snapshots, tick_queue, tick_scan, tick_done, pending,
                   last_tick, clubs, sessions, request, response>>

\* await monitoring_scheduler.start() (the lifespan of the application, or
\* any other caller), also while a tick is in flight.
StartScheduler ==
    /\ LET r == scheduler_start(scheduler, running, now)
       IN  /\ scheduler' = r.scheduler
           /\ running' = r.running
           /\ ev' = AdminEvent("start", 0, r.result)
    /\ UNCHANGED tick_pc
    /\ LifeFrame

\* await monitoring_scheduler.stop().  shutdown(wait=False) returns at once;
\* what it does to the jobs of the store and to a tick in flight is the
\* library's: the tick goes on or is cancelled.
StopScheduler ==
    /\ \E jobs_kept \in BOOLEAN :
          LET r == scheduler_stop(scheduler, running, jobs_kept)
          IN  /\ scheduler' = r.scheduler
              /\ running' = r.running
              /\ ev' = AdminEvent("stop", 0, r.result)
    /\ \E cancelled \in BOOLEAN :
          tick_pc' = IF running /\ cancelled THEN "idle" ELSE tick_pc
    /\ LifeFrame

\* Behaviours of the life cycle: from the constructed scheduler (not
\* started, no job), calls of start and stop, the clock and the ticks of
\* the job, with no configuration stored.
InitLife ==
    /\ InitClient
    /\ clubs = InitClubs
    /\ scheduler = NewScheduler
    /\ running = FALSE
    /\ sessions = [s \in SessionIds |-> NoSession]
    /\ request = NoRequest
    /\ response = <<>>
    /\ asyncio_timedelta = FALSE
    /\ datetime_timedelta = FALSE
    /\ courts = <<>>
    /\ snapshots = <<>>
    /\ tick_pc = "idle"
    /\ tick_queue = <<>>
    /\ tick_scan = {}
    /\ tick_done = {}
    /\ pending = {}
    /\ last_tick = NULL
    /\ ev = NoEvent
    /\ util = NoUtil
    /\ now = StartClock
    /\ config = [c \in {} |-> 0]

NextLife ==
    \/ AdvanceClock(StartClock + MaxClockSteps * SecondsPerMinute)
    \/ StartScheduler
    \/ StopScheduler
    \/ TickStart
    \/ TickEnd

SpecLife == InitLife /\ [][NextLife]_vars

\* ------------------------------------------- processing of one payload
\* Bound: number of slot records in the payloads that are processed.
MaxParseSlots == 2

\* Start time strings of the payloads: missing, "9", "abc", "08:30",
\* "25:00", "8:xx" and "8:30:00".
ParseStartStrs ==
    { NoTimeStr, TimeStr(FALSE, <<9>>), TimeStr(FALSE, <<NULL>>),
      TimeStr(TRUE, <<8, 30>>), TimeStr(TRUE, <<25, 0>>),
      TimeStr(TRUE, <<8, NULL>>), TimeStr(TRUE, <<8, 30, 0>>) }

\* End time strings of the payloads: missing and "09:30".
ParseEndStrs == { NoTimeStr, TimeStr(TRUE, <<9, 30>>) }

\* Slot records of the payloads, with every combination of the flags.
ParseSlots ==
    { RawSlotTimes(s, e, a, c) :
        s \in ParseStartStrs, e \in ParseEndStrs, a \in BOOLEAN, c \in BOOLEAN }

\* Payloads of one day: one court with one to MaxParseSlots slot records.
ParsePayloads ==
    { <<CourtEntry(slots)>> :
        slots \in UNION { [1..n -> ParseSlots] : n \in 1..MaxParseSlots } }

RECURSIVE ReturnedSlots(_, _, _)
\* slots.append(AvailabilitySlot(...)) of the inner loop
ReturnedSlots(court, date, time_slots) ==
    IF time_slots = <<>> THEN <<>>
    ELSE <<AvailabilitySlot(court, date, Head(time_slots))>>
             \o ReturnedSlots(court, date, Tail(time_slots))

RECURSIVE returned_slots(_, _, _, _)
\* The list _process_and_store_availability returns, on the courts crts.
returned_slots(crts, club, target_date, courts_data) ==
    IF courts_data = <<>> THEN <<>>
    ELSE LET court_data == Head(courts_data)
             court == get_or_create_court(crts, club, court_data.court_id)
         IN  ReturnedSlots(court.id, target_date, court_data.slots)
                 \o returned_slots(court.courts, club, target_date,
                                   Tail(courts_data))

\* _process_and_store_availability(db, club 1, today, payload, now) and the
\* commit of its caller: the rows and courts it adds and the slots it
\* returns.
ProcessPayload ==
    /\ request.op = "payload"
    /\ ev.op = "none"
    /\ LET db == process_and_store_availability(
                     [courts |-> courts, rows |-> snapshots], 1, Today(now),
                     request.courts, now)
       IN  /\ courts' = db.courts
           /\ snapshots' = db.rows
    /\ response' = returned_slots(courts, 1, Today(now), request.courts)
    /\ ev' = Event("process", 1, "returned", TRUE, Len(snapshots) + 1, FALSE)
    /\ util' = NoUtil
    /\ UNCHANGED client_vars
    /\ UNCHANGED <<now, asyncio_timedelta, datetime_timedelta, config, tick_pc,
                   tick_queue, tick_scan, tick_done, pending, last_tick,
                   clubs, scheduler, running, sessions, request>>

\* Behaviours that process one drawn payload on the empty store.
InitParse ==
    /\ InitClient
    /\ clubs = InitClubs
    /\ scheduler = StartedScheduler
    /\ running = TRUE
    /\ sessions = [s \in SessionIds |-> NoSession]
    /\ \E p \in ParsePayloads : request = [op |-> "payload", courts |-> p]
    /\ response = <<>>
    /\ asyncio_timedelta = FALSE
    /\ datetime_timedelta = FALSE
    /\ courts = <<>>
    /\ snapshots = <<>>
    /\ tick_pc = "idle"
    /\ tick_queue = <<>>
    /\ tick_scan = {}
    /\ tick_done = {}
    /\ pending = {}
    /\ last_tick = NULL
    /\ ev = NoEvent
    /\ util = NoUtil
    /\ now = StartAggClock
    /\ config = [c \in {} |-> 0]

NextParse == ProcessPayload

SpecParse == InitParse /\ [][NextParse]_vars

\* -------------------------------------------- progress of the scheduler
\* Rows of club 1 for the behaviours about progress: enabled, no window.
LiveConfigRows1 ==
    { ConfigRow(1, TRUE, 1, NoWindow, 1), ConfigRow(1, TRUE, 2, NoWindow, 2) }

\* Rows of club 2 for the same behaviours: any window or none.
LiveConfigRows2 == ConfigRows2 \cup { ConfigRow(2, TRUE, 1, NoWindow, 1) }

\* The upstream answers every request for club 1 (a court without slots);
\* the requests for the other clubs may fail.
LiveDayOutcomes ==
    [c \in DOMAIN clubs |-> IF c = 1 THEN { DayData(<<CourtEntry(<<>>)>>) }
                                     ELSE { DayFailed, DayData(<<CourtEntry(<<>>)>>) }]

\* The database session does not fail while club 1 is processed; it may
\* while the other clubs are.
LiveFaults == [c \in DOMAIN clubs |-> IF c = 1 THEN {"none"} ELSE Faults]

InitLive ==
    /\ InitCommon
    /\ datetime_timedelta = FALSE
    /\ now = StartClock
    /\ \E c1 \in LiveConfigRows1, c2 \in LiveConfigRows2 :
          config = [c \in Clubs |-> IF c = 1 THEN c1 ELSE c2]

NextLive ==
    \/ AdvanceClock(StartClock + MaxClockSteps * SecondsPerMinute)
    \/ TickStart
    \/ ProcessConfigFor(LiveDayOutcomes, LiveFaults)
    \/ TickEnd

\* The scheduler runs: the trigger of the job keeps firing when it is due,
\* and a tick that started goes through its loop to its end.
SpecLive ==
    /\ InitLive /\ [][NextLive]_vars
    /\ WF_vars(AdvanceClock(StartClock + MaxClockSteps * SecondsPerMinute))
    /\ WF_vars(TickStart)
    /\ WF_vars(ProcessConfigFor(LiveDayOutcomes, LiveFaults))
    /\ WF_vars(TickEnd)

\* ------------------------------------- endpoints while a tick is in flight
\* Bodies of the PATCH requests that arrive during a tick.
InFlightBodies == { [frequency_minutes |-> 5], [enabled |-> FALSE] }

\* What the other variables do when an endpoint is served between two
\* awaits of the tick in flight.
InFlightFrame ==
    /\ tick_pc = "loop"
    /\ request' = NoRequest
    /\ util' = NoUtil
    /\ UNCHANGED client_vars
    /\ UNCHANGED <<now, asyncio_timedelta, datetime_timedelta, tick_pc,
                   tick_queue, tick_scan, tick_done, pending, last_tick,
                   scheduler, running, sessions, response>>

\* PATCH /clubs/{club_id}/monitoring, committed while the tick is in flight.
UpdateConfigInFlight(club_ids, bodies) ==
    /\ \E club_id \in club_ids, update_data \in bodies :
          LET r == update_monitoring_config(config, club_id, update_data)
          IN  /\ config' = r.config
              /\ ev' = AdminEvent("update_config", club_id, r.status)
    /\ UNCHANGED <<clubs, courts, snapshots>>
    /\ InFlightFrame

\* DELETE /clubs/{club_id}/monitoring, committed while the tick is in flight.
DeleteConfigInFlight(club_ids) ==
    /\ \E club_id \in club_ids :
          LET r == delete_monitoring_config(config, club_id)
          IN  /\ config' = r.config
              /\ ev' = AdminEvent("delete_config", club_id, r.status)
    /\ UNCHANGED <<clubs, courts, snapshots>>
    /\ InFlightFrame

\* DELETE /clubs/{club_id}, committed while the tick is in flight.
DeleteClubInFlight(club_ids) ==
    /\ \E club_id \in club_ids :
          LET r == delete_club(clubs, config, courts, snapshots, club_id)
          IN  /\ clubs' = r.clubs
              /\ config' = r.config
              /\ courts' = r.courts
              /\ snapshots' = r.rows
              /\ ev' = AdminEvent("delete_club", club_id, r.status)
    /\ InFlightFrame

\* Upstream outcomes of the tick: a slot for club 1, none for the others.
InFlightDayOutcomes ==
    [c \in DOMAIN clubs |-> IF c = 1 THEN SimpleDayOutcomes
                                     ELSE { DayFailed, DayData(<<CourtEntry(<<>>)>>) }]

\* Behaviours of one tick over two configurations that are due, with the
\* endpoints served while it is in flight.
InitInFlight ==
    /\ InitCommon
    /\ datetime_timedelta = FALSE
    /\ now = StartAggClock
    /\ config = [c \in Clubs |-> ConfigRow(c, TRUE, 1, NoWindow, 1)]

NextInFlight ==
    \/ TickStart
    \/ ProcessConfigFor(InFlightDayOutcomes, [c \in DOMAIN clubs |-> Faults])
    \/ TickEnd
    \/ UpdateConfigInFlight(DOMAIN clubs, InFlightBodies)
    \/ DeleteConfigInFlight(DOMAIN clubs)
    \/ DeleteClubInFlight(DOMAIN clubs)

SpecInFlight == InitInFlight /\ [][NextInFlight]_vars

\* ------------------------------------------- requests after a club is gone
\* Status of POST /clubs/{club_id}/fetch-availability for the event of the
\* call: the ValueError of the club lookup, raised before anything else,
\* becomes 404 and every other exception 500.
fetch_availability_status(tbl, e) ==
    IF e.result = "collected" THEN "200"
    ELSE IF e.club \notin { i \in DOMAIN tbl : ~tbl[i].deleted } THEN "404"
    ELSE "500"

\* Status of GET /clubs/{club_id}/utilization/current for the result of the
\* service: its ValueError becomes 404 and every other exception 500.
current_utilization_status(tbl, u) ==
    IF ~u.raised THEN "200"
    ELSE IF u.club \notin { i \in DOMAIN tbl : ~tbl[i].deleted } THEN "404"
    ELSE "500"

\* Status of GET /clubs/{club_id}/utilization/daily for the result of the
\* service: the service does not look the club up; the endpoint does, after
\* the service returned and inside the try block, so that the
\* HTTPException(404) it raises is caught by "except Exception" and
\* answered as 500.
daily_utilization_status(tbl, u) ==
    IF u.raised THEN "500"
    ELSE IF u.club \notin { i \in DOMAIN tbl : ~tbl[i].deleted } THEN "500"
    ELSE "200"

\* Behaviours of collects, queries, ticks and deletions of clubs that start
\* with a configuration for every club.
InitDeleted ==
    /\ InitCommon
    /\ datetime_timedelta \in BOOLEAN
    /\ now = StartAggClock
    /\ config = [c \in Clubs |-> ConfigRow(c, TRUE, 1, NoWindow, 1)]

NextDeleted ==
    \/ FetchAvailability(DOMAIN clubs, {TRUE}, SimpleDayOutcomes, MaxStoreSnapshots)
    \/ GetCurrentUtilization(DOMAIN clubs)
    \/ GetDailyUtilization(DOMAIN clubs)
    \/ TickStart
    \/ ProcessConfig(SimpleDayOutcomes)
    \/ TickEnd
    \/ DeleteClub(DOMAIN clubs)
    \/ DeleteClubInFlight(DOMAIN clubs)

SpecDeleted == InitDeleted /\ [][NextDeleted]_vars

\* ------------------------------------------------ last_run_at over the runs
\* Bodies of the PATCH requests between and during the ticks.
RunsUpdateBodies == { [days_ahead |-> 2], [enabled |-> FALSE] }

\* Upstream outcomes of the runs: a day fails or has a court without slots.
RunsDayOutcomes ==
    [c \in DOMAIN clubs |-> { DayFailed, DayData(<<CourtEntry(<<>>)>>) }]

\* Behaviours of the ticks of several minutes over two configurations that
\* are due every minute, with the configuration of club 1 created, updated
\* and deleted between and during the ticks.
InitRuns ==
    /\ InitCommon
    /\ datetime_timedelta = FALSE
    /\ now = StartClock
    /\ config = [c \in Clubs |-> ConfigRow(c, TRUE, 1, NoWindow, 1)]

NextRuns ==
    \/ AdvanceClock(StartClock + MaxClockSteps * SecondsPerMinute)
    \/ TickStart
    \/ ProcessConfigFor(RunsDayOutcomes, [c \in DOMAIN clubs |-> Faults])
    \/ TickEnd
    \/ CreateConfig({1}, StoreConfigBodies)
    \/ UpdateConfig({1}, RunsUpdateBodies)
    \/ DeleteConfig({1})
    \/ UpdateConfigInFlight({1}, RunsUpdateBodies)
    \/ DeleteConfigInFlight({1})

SpecRuns == InitRuns /\ [][NextRuns]_vars

\* ------------------------------------------- manual collects and the ticks
\* Behaviours of manual collects before, during and after the tick of one
\* minute: club 1 is due every minute, club 2 has a window that minute
\* lies outside of.
InitManual ==
    /\ InitCommon
    /\ datetime_timedelta = FALSE
    /\ now = StartAggClock
    /\ config = [c \in Clubs |-> IF c = 1 THEN ConfigRow(1, TRUE, 1, NoWindow, 1)
                                          ELSE ConfigRow(c, TRUE, 1, LateWindow, 1)]

NextManual ==
    \/ FetchAvailability(RequestClubs, {TRUE}, SimpleDayOutcomes, MaxStoreSnapshots)
    \/ TickStart
    \/ ProcessConfig(SimpleDayOutcomes)
    \/ TickEnd

SpecManual == InitManual /\ [][NextManual]_vars

\* ================================================================== claims
\* The window rule in the words of the specification.
InsideWindow(t, start, end) ==
    \/ start = NULL /\ end = NULL
    \/ start # NULL /\ end # NULL /\ start <= end /\ start <= t /\ t <= end
    \/ start # NULL /\ end # NULL /\ start > end /\ (t >= start \/ t <= end)

\* The due rule in the words of the specification: never run, or at least
\* frequency minutes since the last run.
Due(last_run_at, frequency_minutes, t) ==
    \/ last_run_at = NULL
    \/ ~(t < last_run_at + frequency_minutes * SecondsPerMinute)

\* A step that processes the next configuration of the running tick.
IsProcessStep ==
    /\ tick_pc = "loop" /\ tick_queue # <<>>
    /\ Len(tick_queue') < Len(tick_queue)

\* The operation of the event called the collector.
CollectorInvoked(e) ==
    e.op = "process" /\ e.result \in {"collected", "collect_failed", "commit_failed"}

\* The scanned configuration is enabled, inside its window and due now.
Eligible(cfg) ==
    /\ cfg.enabled
    /\ InsideWindow(LocalTimeOfDay(cfg.club_id, now), cfg.start_time_local,
                    cfg.end_time_local)
    /\ Due(cfg.last_run_at, cfg.frequency_minutes, now)

\* C1: a tick calls the collector for a configuration only if the
\* configuration is enabled, inside its window and due when it is evaluated;
\* a disabled configuration is not scanned, and a configuration that is
\* outside its window or not due is skipped without a collect and without a
\* change of last_run_at.
C1_CollectOnlyWhenEligible ==
    [][ /\ (tick_pc = "idle" /\ tick_pc' = "loop")
            => \A c \in Clubs : ~config[c].enabled => c \notin tick_scan'
        /\ IsProcessStep =>
             LET cfg == Head(tick_queue)
             IN  /\ cfg.club_id \in tick_scan
                 /\ CollectorInvoked(ev') => Eligible(cfg)
                 /\ ~Eligible(cfg) =>
                      /\ ~CollectorInvoked(ev')
                      /\ UNCHANGED <<config, courts, snapshots>> ]_vars

\* C1 witness: an enabled configuration inside its window was skipped as not
\* due.
C1_Witness ==
    /\ ev.op = "process" /\ ev.result = "not_due"
    /\ config[ev.club].enabled
    /\ config[ev.club].last_run_at # NULL

\* C2: the due check is true iff last_run_at is null or at least
\* frequency_minutes minutes have passed since it; for frequency 15, 14
\* minutes is not due and 15 minutes or more is due.
C2_DueCheck ==
    ev.op = "due" =>
        LET last == config[1].last_run_at
            f == config[1].frequency_minutes
        IN  /\ (ev.result = "due") <=> Due(last, f, now)
            /\ last = NULL => ev.result = "due"
            /\ (last # NULL /\ f = 15 /\ now - last = 14 * 60) => ev.result = "not_due"
            /\ (last # NULL /\ f = 15 /\ now - last >= 15 * 60) => ev.result = "due"

\* C2 witness: frequency 15 and a last run exactly 15 minutes ago is due.
C2_Witness ==
    /\ ev.op = "due" /\ ev.result = "due"
    /\ config[1].frequency_minutes = 15
    /\ config[1].last_run_at = now - 15 * 60

\* C3: with both bounds null every time is inside; with start <= end the
\* time is inside iff start <= now <= end; with start > end iff now >= start
\* or now <= end (22:00-02:00 contains 23:30 and 01:00, not 12:00).
C3_WindowTest ==
    ev.op = "window" =>
        LET t == LocalTimeOfDay(1, now)
            start == config[1].start_time_local
            end == config[1].end_time_local
            inside == ev.result = "inside"
        IN  /\ (start = NULL /\ end = NULL) => inside
            /\ (start # NULL /\ end # NULL /\ start <= end)
                   => (inside <=> (start <= t /\ t <= end))
            /\ (start # NULL /\ end # NULL /\ start > end)
                   => (inside <=> (t >= start \/ t <= end))
            /\ (start = TimeOfDay(22, 0) /\ end = TimeOfDay(2, 0))
                   => /\ t \in {TimeOfDay(23, 30), TimeOfDay(1, 0)} => inside
                      /\ t = TimeOfDay(12, 0) => ~inside

\* C3 witness: 01:00 is inside the window 22:00-02:00.
C3_Witness ==
    /\ ev.op = "window" /\ ev.result = "inside"
    /\ config[1].start_time_local = TimeOfDay(22, 0)
    /\ config[1].end_time_local = TimeOfDay(2, 0)
    /\ LocalTimeOfDay(1, now) = TimeOfDay(1, 0)

\* C4: a collect of the scheduler that raises leaves last_run_at as it was,
\* and the next time the configuration is evaluated inside its window the
\* collect is attempted again (it is not skipped as not due).
C4_FailedCollectIsRetried ==
    [][ IsProcessStep =>
          LET cfg == Head(tick_queue)
              c == cfg.club_id
          IN  /\ ev'.result = "collect_failed"
                    => config'[c].last_run_at = config[c].last_run_at
              /\ ( /\ c \in pending
                   /\ ev'.result # "error"
                   /\ InsideWindow(LocalTimeOfDay(c, now), cfg.start_time_local,
                                   cfg.end_time_local) )
                    => CollectorInvoked(ev') ]_vars

\* C4 witness: a configuration whose previous collect had raised was
\* collected again in a later tick.
C4_Witness ==
    /\ ev.op = "process" /\ ev.retry /\ CollectorInvoked(ev)

DoneClubs == { p[1] : p \in tick_done }
QueueClubs == { tick_queue[i].club_id : i \in DOMAIN tick_queue }

\* C6: whatever happens while one configuration is processed, every
\* configuration the tick's scan returned is evaluated in that tick.
C6_EveryScannedConfigEvaluated ==
    /\ tick_pc = "loop" => tick_scan = DoneClubs \cup QueueClubs
    /\ tick_pc = "idle" => tick_scan = DoneClubs

\* C6 witness: the first configuration of a tick failed and the second one
\* was evaluated after it.
C6_Witness ==
    /\ tick_pc = "loop" /\ tick_queue = <<>>
    /\ ev.op = "process"
    /\ \E p \in tick_done :
          /\ p[1] # ev.club
          /\ p[2] \in {"error", "collect_failed", "commit_failed"}

\* Rows of the club with slot date d, the (court, start time) key of a row,
\* the keys the club has on d, and the rows of a key on d with the maximum
\* observation timestamp.
ClubDateRows(c, d) ==
    { i \in 1..Len(snapshots) : snapshots[i].club_id = c /\ snapshots[i].date = d }
KeyOf(i) == <<snapshots[i].court_id, snapshots[i].start_time>>
KeysOn(c, d) == { KeyOf(i) : i \in ClubDateRows(c, d) }
Newest(c, d, key) ==
    { i \in ClubDateRows(c, d) :
        /\ KeyOf(i) = key
        /\ \A j \in ClubDateRows(c, d) :
              KeyOf(j) = key => snapshots[j].snapshot_time <= snapshots[i].snapshot_time }

\* The last operation was a utilization query that returned a result.
QueryReturned == util.op \in {"current", "daily"} /\ ~util.raised

\* C7: for every date D of a utilization result and every key with a
\* snapshot on D, the snapshots of the key on D that are counted are those
\* with the maximum observation timestamp of the key, never an older one,
\* and the counts are the counts of the statuses of the counted snapshots.
C7_LatestSnapshotCounted ==
    QueryReturned =>
        \A n \in DOMAIN util.entries :
            LET e == util.entries[n]
            IN  /\ \A key \in KeysOn(util.club, e.date) :
                      { i \in e.snapshots :
                          snapshots[i].date = e.date /\ KeyOf(i) = key }
                        = Newest(util.club, e.date, key)
                /\ \A st \in Statuses :
                      Cardinality({ i \in e.snapshots : snapshots[i].status = st })
                        = (CASE st = "booked" -> e.booked_slots
                             [] st = "free" -> e.free_slots
                             [] st = "closed" -> e.closed_slots)

\* C7 witness: a result counts a key that has an older snapshot with another
\* status.
C7_Witness ==
    /\ QueryReturned
    /\ \E n \in DOMAIN util.entries :
          \E i \in util.entries[n].snapshots, j \in ClubDateRows(util.club, util.entries[n].date) :
              /\ snapshots[i].date = util.entries[n].date
              /\ KeyOf(i) = KeyOf(j)
              /\ snapshots[j].snapshot_time < snapshots[i].snapshot_time
              /\ snapshots[j].status # snapshots[i].status

C10_TotalIsSumOfCounts ==
    QueryReturned =>
        \A n \in DOMAIN util.entries :
            LET e == util.entries[n]
            IN  e.total_slots = e.booked_slots + e.free_slots + e.closed_slots

\* C10 witness: a daily result with two entries, one of them with slots of
\* two statuses.
C10_Witness ==
    /\ util.op = "daily" /\ ~util.raised
    /\ Len(util.entries) = 2
    /\ \E n \in DOMAIN util.entries :
          /\ util.entries[n].total_slots >= 2
          /\ util.entries[n].booked_slots >= 1
          /\ util.entries[n].free_slots >= 1

\* C11: the current utilization of an existing club that has no snapshot
\* for the date returns normally with total, booked, free and closed 0 and
\* both percentages 0; no division by zero or other error is raised.
C11_EmptyDateIsAllZero ==
    ( /\ util.op = "current"
      /\ util.club \in Clubs
      /\ ClubDateRows(util.club, Today(now)) = {} )
    => /\ ~util.raised
       /\ Len(util.entries) = 1
       /\ LET e == util.entries[1]
          IN  /\ e.date = Today(now)
              /\ e.total_slots = 0 /\ e.booked_slots = 0
              /\ e.free_slots = 0 /\ e.closed_slots = 0
              /\ e.booked_percentage = 0 /\ e.free_percentage = 0

\* C11 witness: the club has snapshots of another date only, and the
\* query of today returned.
C11_Witness ==
    /\ util.op = "current" /\ util.club \in Clubs /\ ~util.raised
    /\ ClubDateRows(util.club, Today(now)) = {}
    /\ \E i \in 1..Len(snapshots) : snapshots[i].club_id = util.club

\* Two snapshots of one key of the club on date d share the maximum
\* observation timestamp of the key.
TiedOn(c, d) ==
    \E key \in KeysOn(c, d) : Cardinality(Newest(c, d, key)) > 1

C13_DailyReturnsEveryDateWithSnapshots ==
    (util.op = "daily" /\ util.club \in Clubs) =>
        /\ ~util.raised
        /\ LET dates == { d \in util.from_date..util.to_date :
                            ClubDateRows(util.club, d) # {} }
           IN  /\ Len(util.entries) = Cardinality(dates)
               /\ \A n \in DOMAIN util.entries :
                     LET e == util.entries[n]
                         a == CurrentStats(snapshots,
                                  latest_snapshots(snapshots, util.club, e.date),
                                  e.date)
                     IN  /\ e.date \in dates
                         /\ \A m \in DOMAIN util.entries :
                               n < m => e.date < util.entries[m].date
                         /\ e.total_slots = a.total_slots
                         /\ e.booked_slots = a.booked_slots
                         /\ e.free_slots = a.free_slots
                         /\ e.closed_slots = a.closed_slots
                         /\ e.booked_percentage = a.booked_percentage
                         /\ e.free_percentage = a.free_percentage

\* The attempts of a call before its latest one all failed with an HTTP
\* error.
EarlierAttemptsFailed(c) ==
    \A i \in 1..(Len(c.outcomes) - 1) : c.outcomes[i] = "http_error"

\* C14: a request makes its attempts one after another until one succeeds
\* or MAX_RETRIES attempts have failed: an attempt is made only after all
\* earlier ones failed, never more than MAX_RETRIES are made, the call
\* returns the payload of the first successful attempt, and it raises the
\* terminal HTTP error after exactly MAX_RETRIES failed attempts.
C14_BoundedRetry ==
    \A k \in CallIds :
        LET c == calls[k]
        IN  /\ Len(c.outcomes) <= MAX_RETRIES
            /\ EarlierAttemptsFailed(c)
            /\ c.pc \in {"request", "backoff"} =>
                  /\ \A i \in DOMAIN c.outcomes : c.outcomes[i] = "http_error"
                  /\ Len(c.outcomes) < MAX_RETRIES
            /\ (c.pc = "done" /\ c.result = "ok") =>
                  /\ c.outcomes[Len(c.outcomes)] = "ok"
                  /\ c.payload = Len(c.outcomes)
            /\ (c.pc = "done" /\ c.result = "HTTPError") =>
                  /\ Len(c.outcomes) = MAX_RETRIES
                  /\ \A i \in DOMAIN c.outcomes : c.outcomes[i] = "http_error"
            /\ c.pc = "done" =>
                  \/ c.result = "ok"
                  \/ c.result = "HTTPError"
                  \/ c.result = "ValueError"
                       /\ c.outcomes[Len(c.outcomes)] = "invalid_json"

\* C14 witness: a call failed twice and returned the payload of its third
\* attempt, and another call raised after three failed attempts.
C14_Witness ==
    \E k, j \in CallIds :
        /\ calls[k].pc = "done" /\ calls[k].result = "ok"
        /\ calls[k].outcomes = <<"http_error", "http_error", "ok">>
        /\ calls[j].pc = "done" /\ calls[j].result = "HTTPError"

\* A network call of call k starts in this step.
CallStarts(k) == calls[k].pc # "request" /\ calls'[k].pc = "request"

\* C16 (as claimed): every network call of the client, retries included,
\* starts at least request_delay after the end of the previous network
\* call.
C16_DelayAfterPreviousCall ==
    [][ \A k \in CallIds :
          (CallStarts(k) /\ last_call_end # NULL)
              => loop_time' >= last_call_end + request_delay ]_vars

\* Calls whose network call is outstanding.
Outstanding == { k \in CallIds : calls[k].pc = "request" }

\* C17 (as claimed): at most one network call of the client is outstanding
\* at any time, whoever the callers are.
C17_OneOutstandingCall == Cardinality(Outstanding) <= 1

\* The dates start, start + 1, ... of the first n days of a range.
RangeDates(start, n) == [i \in 1..n |-> start + i - 1]

\* The dates of the requests of the collect that succeeded, in the order
\* they were made.
SucceededDates ==
    LET ok == SelectSeq(collect.requested, LAMBDA r : r[2])
    IN  [i \in DOMAIN ok |-> ok[i][1]]

\* C15 (as claimed): the range of a collect makes one single-day request
\* for each of the dates start .. start + n - 1, whatever the earlier
\* requests did, and returns exactly the days whose request succeeded, in
\* ascending date order, without raising.
C15_RangeReturnsSuccessfulDays ==
    collect.club \in Clubs =>
        /\ collect.result # "AttributeError"
        /\ [i \in DOMAIN collect.requested |-> collect.requested[i][1]]
              = RangeDates(collect.today, Len(collect.requested))
        /\ collect.pc \in {"store", "commit", "done"} =>
              /\ Len(collect.requested) = collect.days
              /\ [i \in DOMAIN collect.results |-> collect.results[i].date]
                    = SucceededDates

\* A step in which a collect ends.
CollectEnds == collect.pc # "done" /\ collect'.pc = "done"

\* C18: a collect for a club id that has no row fails with ValueError (the
\* endpoint's 404), sends no request to the external source and writes no
\* court or snapshot row.
C18_UnknownClubHasNoEffect ==
    [][ /\ collect'.pc \in {"range", "store", "commit"} => collect'.club \in Clubs
        /\ (CollectEnds /\ collect'.club \notin Clubs) =>
              /\ collect'.result = "ValueError"
              /\ collect'.requested = <<>>
              /\ collect'.session = [courts |-> courts, rows |-> snapshots]
              /\ UNCHANGED <<courts, snapshots>> ]_vars

\* C18 witness: a collect for the unknown club failed while the store held
\* snapshots of an earlier collect.
C18_Witness ==
    /\ collect.pc = "done" /\ collect.club = UnknownClub
    /\ collect.result = "ValueError"
    /\ snapshots # <<>>

\* C19 (as claimed): unless a database operation raises, a collect for an
\* existing club returns: with an empty slot list and no snapshot written
\* when the request of every day failed, with the slots of the remaining
\* days when some failed; only an unknown club makes it fail.
C19_UpstreamFailuresDoNotFailCollect ==
    (collect.pc = "done" /\ collect.fault = "") =>
        /\ collect.result # "returned" => collect.club \notin Clubs
        /\ collect.club \in Clubs =>
              /\ collect.result = "returned"
              /\ collect.slots = RowsOf(collect.results)
              /\ Len(collect.requested) = collect.days
              /\ (\A i \in DOMAIN collect.requested : ~collect.requested[i][2])
                    => collect.slots = 0 /\ collect.results = <<>>

\* C20: the court and snapshot tables other sessions see change only in
\* the commit of a collect, and then to the tables with every row of the
\* call (every snapshot of every returned day and every court it created);
\* a collect that ends in an error leaves them as they were.
C20_AtomicCommit ==
    [][ /\ (courts' # courts \/ snapshots' # snapshots) =>
              /\ collect.pc = "commit" /\ collect'.result = "returned"
              /\ [courts |-> courts', rows |-> snapshots']
                    = StoreDays([courts |-> courts, rows |-> snapshots],
                                collect.club, collect.results,
                                collect.snapshot_time)
        /\ (CollectEnds /\ collect'.result # "returned") =>
              UNCHANGED <<courts, snapshots>>
        /\ (CollectEnds /\ collect'.result = "returned") =>
              Len(snapshots') = Len(snapshots) + RowsOf(collect.results) ]_vars

\* C20 witness: a collect ended in an error with rows and a new court
\* pending in its session, and none of them is in the tables.
C20_Witness ==
    /\ collect.pc = "done" /\ collect.fault = "store"
    /\ Len(collect.session.rows) > Len(snapshots)
    /\ Len(collect.session.courts) > Len(courts)
    /\ collect.stored >= 1

\* The sequence a is the beginning of the sequence b.
IsPrefix(a, b) == Len(a) <= Len(b) /\ SubSeq(b, 1, Len(a)) = a

\* C21: snapshots are append-only: whatever a collect, a tick, a query or
\* an endpoint of the clubs and configurations does, every snapshot row
\* written before is still there with every column unchanged; rows
\* disappear only in the deletion of their club, and then exactly the rows
\* of that club.
C21_SnapshotsAppendOnly ==
    [][ \/ IsPrefix(snapshots, snapshots')
        \/ /\ ev'.op = "delete_club" /\ ev'.result = "204"
           /\ ev'.club \in Clubs /\ ev'.club \notin Clubs'
           /\ snapshots' = SelectSeq(snapshots, LAMBDA r : r.club_id # ev'.club) ]_vars

\* C21 witness: a club was deleted and the snapshots of another club are
\* still in the store.
C21_Witness ==
    /\ ev.op = "delete_club" /\ ev.result = "204"
    /\ snapshots # <<>>
    /\ \A i \in DOMAIN snapshots : snapshots[i].club_id # ev.club

\* C23 (as claimed): every stored configuration has both window bounds set
\* or both unset (a write that would leave exactly one of them set is
\* rejected).
C23_WindowBoundsBothOrNeither ==
    \A c \in DOMAIN config :
        (config[c].start_time_local = NULL) <=> (config[c].end_time_local = NULL)

C27_DuplicatePlaytomicIdRejected ==
    [][ /\ ( /\ ev'.op = "create_club"
             /\ RowsWith(clubs, "playtomic_id", request'.playtomic_id) # {} )
              => ev'.result = "400 already exists" /\ clubs' = clubs
        /\ ( /\ ev'.op = "create_club_from_url"
             /\ request'.slug # NoString
             /\ RowsWith(clubs, "playtomic_id", request'.slug) # {} )
              => ev'.result = "400 already exists" /\ clubs' = clubs
        /\ \A i, j \in Clubs' :
              clubs'[i].playtomic_id = clubs'[j].playtomic_id => i = j ]_vars

C24_StartIdempotent ==
    [][ /\ (ev'.op = "start" /\ running) =>
              /\ ev'.result = "warning"
              /\ running' /\ scheduler' = scheduler
        /\ running' =>
              /\ scheduler'.state = "running"
              /\ Len(scheduler'.jobs) = 1
              /\ scheduler'.jobs[1].id = "monitoring_job"
        /\ Len(scheduler'.jobs) <= 1
        /\ (last_tick' # last_tick /\ last_tick # NULL) =>
              last_tick' >= last_tick + SecondsPerMinute ]_vars

\* C24 witness: start was called on the running scheduler, after a tick,
\* while the next run of the job is still ahead.
C24_Witness ==
    /\ ev.op = "start" /\ ev.result = "warning"
    /\ running /\ last_tick # NULL
    /\ Len(scheduler.jobs) = 1
    /\ scheduler.jobs[1].next_run_time > now

\* The slot records of the payload that was processed.
ProcessedSlots == request.courts[1].slots

\* C28: for every raw slot record the stored status is 'closed' if the
\* record is marked closed (whatever its available flag), else 'free' if
\* it is marked available, else 'booked'; the slot of the returned result
\* has the status of the stored snapshot, and no other status is written.
C28_StatusDerivation ==
    ev.op = "process" =>
        /\ Len(snapshots) = Len(ProcessedSlots)
        /\ Len(response) = Len(ProcessedSlots)
        /\ \A i \in DOMAIN ProcessedSlots :
              LET raw == ProcessedSlots[i]
              IN  /\ raw.closed => snapshots[i].status = "closed"
                  /\ (~raw.closed /\ raw.available) => snapshots[i].status = "free"
                  /\ (~raw.closed /\ ~raw.available) => snapshots[i].status = "booked"
                  /\ response[i].status = snapshots[i].status
                  /\ snapshots[i].status \in {"closed", "free", "booked"}

\* C28 witness: a payload was processed whose first record is closed and
\* available and whose second is neither.
C28_Witness ==
    /\ ev.op = "process"
    /\ Len(ProcessedSlots) = 2
    /\ ProcessedSlots[1].closed /\ ProcessedSlots[1].available
    /\ ~ProcessedSlots[2].closed /\ ~ProcessedSlots[2].available
    /\ snapshots[1].status = "closed" /\ response[2].status = "booked"

\* A time string of the form "H" or "H:M" with an hour and a minute of the
\* clock.
WellFormedTime(ts) ==
    /\ ts.kind = "text"
    /\ Len(ts.parts) = (IF ts.colon THEN 2 ELSE 1)
    /\ ValidTime(ts.parts[1], IF ts.colon THEN ts.parts[2] ELSE 0)

\* A missing time, or a string with a piece that is not a number of the
\* clock.
MalformedTime(ts) ==
    \/ ts.kind = "none"
    \/ \E i \in DOMAIN ts.parts :
          i <= 2 /\ (ts.parts[i] < 0 \/ ts.parts[i] > (IF i = 1 THEN 23 ELSE 59))

\* The time the claim gives a well-formed string.
ClaimedTime(ts) ==
    TimeOfDay(ts.parts[1], IF ts.colon THEN ts.parts[2] ELSE 0)

\* C29: the processing of a payload never fails on its time strings: it
\* returns, with one snapshot and one returned slot per slot record, in the
\* order of the payload; a malformed or missing start or end time is stored
\* as 00:00 and a well-formed "H" or "H:M" as that hour and minute.
C29_MalformedTimeCoerced ==
    ev.op = "process" =>
        /\ ev.result = "returned"
        /\ Len(snapshots) = Len(ProcessedSlots)
        /\ Len(response) = Len(ProcessedSlots)
        /\ \A i \in DOMAIN ProcessedSlots :
              LET raw == ProcessedSlots[i]
              IN  /\ MalformedTime(raw.start_time) =>
                        snapshots[i].start_time = TimeOfDay(0, 0)
                  /\ MalformedTime(raw.end_time) =>
                        snapshots[i].end_time = TimeOfDay(0, 0)
                  /\ WellFormedTime(raw.start_time) =>
                        snapshots[i].start_time = ClaimedTime(raw.start_time)
                  /\ WellFormedTime(raw.end_time) =>
                        snapshots[i].end_time = ClaimedTime(raw.end_time)
                  /\ response[i].start_time = snapshots[i].start_time
                  /\ response[i].end_time = snapshots[i].end_time

\* C29 witness: a payload was processed whose first record has a malformed
\* start time and no end time, and whose second has "08:30" and "09:30".
C29_Witness ==
    /\ ev.op = "process"
    /\ Len(ProcessedSlots) = 2
    /\ ProcessedSlots[1].start_time = TimeStr(TRUE, <<8, NULL>>)
    /\ ProcessedSlots[1].end_time = NoTimeStr
    /\ snapshots[1].start_time = TimeOfDay(0, 0)
    /\ snapshots[2].start_time = TimeOfDay(8, 30)
    /\ snapshots[2].end_time = TimeOfDay(9, 30)

\* Results of a processed configuration for which the collect was started.
CollectStarted == {"collected", "commit_failed", "collect_failed"}

\* C30: the scheduler starts a collect for a configuration only when it
\* never ran or at least frequency_minutes after the evaluation time of its
\* last successful run: a run that succeeds records the time it was
\* evaluated at as last_run_at, nothing else changes last_run_at, and a
\* collect starts only if the stored last_run_at is null or lies at least
\* frequency_minutes before the evaluation.
C30_CollectsFrequencyApart ==
    [][ \A c \in DOMAIN config :
          LET processed == /\ tick_pc = "loop" /\ tick_queue' # tick_queue
                           /\ ev'.op = "process" /\ ev'.club = c
          IN  /\ (processed /\ ev'.result \in CollectStarted) =>
                    \/ config[c].last_run_at = NULL
                    \/ now - config[c].last_run_at
                          >= config[c].frequency_minutes * SecondsPerMinute
              /\ (processed /\ ev'.result = "collected") =>
                    config'[c].last_run_at = now
              /\ config'[c].last_run_at # config[c].last_run_at =>
                    processed /\ ev'.result = "collected" ]_vars

\* C30 witness: a configuration with a frequency of two minutes was
\* evaluated one minute after its last successful run and no collect was
\* started.
C30_Witness ==
    /\ ev.op = "process" /\ ev.result = "not_due"
    /\ config[ev.club].frequency_minutes = 2
    /\ config[ev.club].last_run_at # NULL
    /\ last_tick = now
    /\ now - config[ev.club].last_run_at = SecondsPerMinute

\* C31 (as claimed): while the ticks keep firing, the enabled configuration
\* of club 1, which has no window, whose club exists and whose upstream
\* calls succeed, is eventually collected once it is due (it never ran) and
\* its last_run_at is eventually advanced, whatever the configuration of
\* the other club is and however its processing fails.
C31_DueConfigEventuallyCollected ==
    (config[1].last_run_at = NULL) ~> (config[1].last_run_at # NULL)

C33_ExponentialBackoff ==
    [][ \A k \in CallIds :
          LET c == calls[k]
              d == calls'[k]
              failed == /\ c.pc = "request" /\ Len(d.outcomes) = Len(c.outcomes) + 1
                        /\ d.outcomes[Len(d.outcomes)] = "http_error"
          IN  /\ (failed /\ Len(d.outcomes) < MAX_RETRIES) =>
                    /\ d.pc = "backoff"
                    /\ d.wake = loop_time + 2 ^ (Len(d.outcomes) - 1)
              /\ (failed /\ Len(d.outcomes) = MAX_RETRIES) =>
                    /\ d.pc = "done" /\ d.result = "HTTPError"
                    /\ d.wake = NULL
              /\ (c.pc = "backoff" /\ d.pc # "backoff") =>
                    /\ d.pc = "request"
                    /\ loop_time >= c.wake ]_vars

\* C33 witness: a call sleeps two seconds after its second failed attempt.
C33_Witness ==
    \E k \in CallIds :
        /\ calls[k].pc = "backoff"
        /\ calls[k].outcomes = <<"http_error", "http_error">>
        /\ calls[k].wake = loop_time + 2

\* C34: a collect takes its observation timestamp once, from the clock,
\* when the range has returned; every row it commits, of every day and
\* court, carries that timestamp, which is the fetch_time of its result
\* (so rows of two collects share a timestamp only if both read the same
\* clock instant), also when the clock moves on while the rows are stored.
C34_OneTimestampPerCollect ==
    [][ /\ (collect.pc = "range" /\ collect'.pc = "store") =>
              collect'.snapshot_time = now
        /\ collect.pc \in {"store", "commit"} =>
              collect'.snapshot_time = collect.snapshot_time
        /\ (collect.pc = "commit" /\ collect'.result = "returned") =>
              /\ IsPrefix(snapshots, snapshots')
              /\ \A i \in (Len(snapshots) + 1)..Len(snapshots') :
                    /\ snapshots'[i].snapshot_time = collect'.snapshot_time
                    /\ snapshots'[i].club_id = collect.club ]_vars

\* C34 witness: a collect returned that stored rows of two dates, while the
\* clock moved on after it had taken its timestamp.
C34_Witness ==
    /\ collect.pc = "done" /\ collect.result = "returned"
    /\ collect.snapshot_time < now
    /\ \E i, j \in DOMAIN snapshots :
          /\ snapshots[i].date # snapshots[j].date
          /\ snapshots[i].snapshot_time = collect.snapshot_time
          /\ snapshots[j].snapshot_time = collect.snapshot_time

\* C35: an update or a deletion of a configuration committed while the tick
\* is in flight is tolerated: the step that processes a configuration goes
\* on to the rest of the scan whatever it met, it neither creates nor
\* removes a configuration, leaves the rows of the other clubs alone, and
\* changes no column of the row of its club but last_run_at, so the values
\* the tick read at its scan never replace what an endpoint committed
\* since.
C35_InFlightUpdateTolerated ==
    [][ IsProcessStep =>
          LET c == Head(tick_queue).club_id
          IN  /\ tick_pc' = "loop" /\ tick_queue' = Tail(tick_queue)
              /\ DOMAIN config' = DOMAIN config
              /\ \A d \in DOMAIN config :
                    \A field \in DOMAIN config[d] :
                       (d # c \/ field # "last_run_at")
                           => config'[d][field] = config[d][field] ]_vars

\* C35 witness: the tick collected for a configuration whose frequency an
\* endpoint had changed after the scan, and the stored row has the new
\* frequency and the new last_run_at.
C35_Witness ==
    /\ ev.op = "process" /\ ev.result = "collected"
    /\ ev.club \in DOMAIN config
    /\ config[ev.club].frequency_minutes = 5
    /\ config[ev.club].last_run_at = now

\* Nothing that references a deleted club is stored and no tick collected
\* for it since.
NoRowOfDeletedClub(c) ==
    /\ c \notin DOMAIN config
    /\ \A i \in DOMAIN courts : courts[i].club_id # c
    /\ \A i \in DOMAIN snapshots : snapshots[i].club_id # c
    /\ ~(ev.op = "process" /\ ev.club = c /\ ev.result = "collected")

\* C36: after delete_club no configuration, court or snapshot of the club
\* remains, no tick collects for it, and a collect or a utilization request
\* for its id is answered NotFound (404).
C36_DeletedClubIsGone ==
    \A c \in DOMAIN clubs :
       clubs[c].deleted =>
          /\ NoRowOfDeletedClub(c)
          /\ (ev.op = "fetch" /\ ev.club = c)
                => fetch_availability_status(clubs, ev) = "404"
          /\ (util.op = "current" /\ util.club = c)
                => current_utilization_status(clubs, util) = "404"
          /\ (util.op = "daily" /\ util.club = c)
                => daily_utilization_status(clubs, util) = "404"

\* C37: the running flag is false after construction; a call of start
\* leaves it true, with the scheduler running and the one job
\* "monitoring_job" registered (its next run one period ahead when the
\* flag was not set), also when a stop came before; a call of
\* stop leaves it false, and changes nothing when it was false already; no
\* other step changes the flag.
C37_RunningFlag ==
    /\ ~running
    /\ [][ /\ (ev'.op = "start" /\ ev' # ev) =>
                 /\ running'
                 /\ scheduler'.state = "running"
                 /\ Len(scheduler'.jobs) = 1
                 /\ scheduler'.jobs[1].id = "monitoring_job"
                 /\ ~running =>
                       scheduler'.jobs[1].next_run_time = now + SecondsPerMinute
           /\ (ev'.op = "stop" /\ ev' # ev) =>
                 /\ ~running'
                 /\ ~running => (scheduler' = scheduler /\ tick_pc' = tick_pc)
           /\ (running' # running) => (ev'.op \in {"start", "stop"} /\ ev' # ev)
         ]_vars

\* C37 witness: the scheduler was started, ran a tick, was stopped and is
\* started again: the flag is set and the job registered with its next run
\* one period ahead.
C37_Witness ==
    /\ ev.op = "start" /\ ev.result = "started"
    /\ last_tick # NULL
    /\ running
    /\ Len(scheduler.jobs) = 1
    /\ scheduler.jobs[1].next_run_time = now + SecondsPerMinute

\* C38: last_run_at of a configuration never decreases: a step that leaves
\* the configuration stored changes its last_run_at only when the tick
\* processes it and the collect returned, and then to the time of that
\* evaluation, which is not before the value it replaces; once set it is
\* never null again.
C38_LastRunAtMonotone ==
    [][ \A c \in DOMAIN config \cap DOMAIN config' :
           /\ config[c].last_run_at # NULL =>
                 /\ config'[c].last_run_at # NULL
                 /\ config'[c].last_run_at >= config[c].last_run_at
           /\ config'[c].last_run_at # config[c].last_run_at =>
                 /\ IsProcessStep /\ Head(tick_queue).club_id = c
                 /\ ev'.result = "collected"
                 /\ config'[c].last_run_at = now ]_vars

\* C38 witness: a PATCH of a configuration the scheduler had collected for
\* a minute or more before: the stored last_run_at is the one of that run.
C38_Witness ==
    /\ ev.op = "update_config" /\ ev.result = "200" /\ ev.club = 1
    /\ 1 \in DOMAIN config
    /\ config[1].last_run_at # NULL
    /\ config[1].last_run_at < now

\* The scheduler would collect for club c now: it is enabled, inside its
\* window and its last run is at least one frequency back.
SchedulerWouldRun(cfgs, c) ==
    /\ c \in DOMAIN cfgs /\ cfgs[c].enabled
    /\ is_within_monitoring_window(LocalTimeOfDay(c, now),
                                   cfgs[c].start_time_local,
                                   cfgs[c].end_time_local)
    /\ should_run_now(cfgs[c].last_run_at, cfgs[c].frequency_minutes, now)

\* C39: a manual collect (POST fetch-availability) leaves every
\* configuration as it is, last_run_at included, so what the scheduler
\* decides for any club is the same after it as before; and it collects
\* for every club that exists (where the date arithmetic of the range
\* resolves), whatever the window and the last run of its configuration.
C39_ManualFetchLeavesConfigs ==
    [][ (ev'.op = "fetch" /\ ev' # ev) =>
           /\ config' = config
           /\ \A c \in Clubs : SchedulerWouldRun(config', c) = SchedulerWouldRun(config, c)
           /\ (ev'.result = "collected") = (ev'.club \in Clubs /\ asyncio_timedelta)
      ]_vars

\* C39 witness: a manual collect stored rows for club 1 in the minute in
\* which the scheduler had collected for it, so that the interval rule
\* would have refused, and last_run_at is still the one the tick wrote.
C39_Witness ==
    /\ ev.op = "fetch" /\ ev.result = "collected" /\ ev.club = 1
    /\ ev.first_row > 1
    /\ config[1].last_run_at = now
    /\ ~SchedulerWouldRun(config, 1)

\* C40: the court a stored snapshot names is a stored court of the
\* snapshot's own club, whatever collects, ticks and deletions came before
\* and although every club reports the same external court id.
C40_SnapshotCourtOfOwnClub ==
    \A i \in DOMAIN snapshots :
       /\ snapshots[i].court_id \in DOMAIN courts
       /\ courts[snapshots[i].court_id].club_id = snapshots[i].club_id

\* C40 witness: two clubs have a court with the same external id each, and
\* rows of both clubs are stored.
C40_Witness ==
    \E i, j \in DOMAIN snapshots :
       /\ snapshots[i].club_id # snapshots[j].club_id
       /\ snapshots[i].court_id # snapshots[j].court_id
       /\ courts[snapshots[i].court_id].playtomic_court_id
             = courts[snapshots[j].court_id].playtomic_court_id

====
